---------------------------- MODULE Spec2Model ----------------------------
(***************************************************************************)
(* Vibe Security Checker: the pattern scanner (scan_security.py), the      *)
(* dependency checker (check_dependencies.py), the report generator        *)
(* (generate_report.py) and the project detector's entry point             *)
(* (detect_project.py), each as a state machine over one set of variables. *)
(*                                                                         *)
(* Regular expressions are not evaluated here: a file is a sequence of     *)
(* lines taken from a fixed set of sample lines, and LineMatches gives,    *)
(* for each sample line, the rule ids whose pattern matches it (computed   *)
(* with the patterns of the source).                                       *)
(***************************************************************************)
EXTENDS Integers, Sequences, FiniteSets, TLC

VARIABLES
    pc,             \* position of the running entry point
    pathExists,     \* os.path.exists(args.path)
    args,           \* the parsed command line
    tree,           \* the files of the target, in directory-walk order
    places,         \* for each file of tree, its directories below the root and its name
    yielded,        \* number of files _get_files has yielded so far
    findings,       \* ScanResult.findings
    files_scanned,  \* ScanResult.files_scanned
    scanned,        \* result.findings as scan() returned it, before main filters it
    output,         \* what the process printed
    exitCode,       \* the process's exit status, -1 while it runs
    previous,       \* what an earlier scan of the same target printed
    catalog,        \* the rule tables the scanner was started with
    deps,           \* the audit tools' behaviour and the manifests of the target
    depFindings,    \* DependencyChecker.findings
    project,        \* what detect_project.py finds in the target
    procs,          \* how each sub-process of run_all_checks ends
    results,        \* the results dict of run_all_checks
    report          \* what generate_report.py's main has generated

vars == <<pc, pathExists, args, tree, places, yielded, findings, files_scanned,
          scanned, output, exitCode, previous, catalog, deps, depFindings, project, procs,
          results, report>>

scanState == <<tree, places, yielded, findings, files_scanned, scanned, previous,
               catalog>>

depState == <<deps, depFindings>>

reportState == <<project, procs, results, report>>

None == "None"

-----------------------------------------------------------------------------
(* Bounds *)

MaxFiles == 2

MaxFindings == 3

MaxManifests == 2

MaxReportFiles == 1

MaxCount == 2

MaxWalkFiles == 2

-----------------------------------------------------------------------------
(* scan_security.py: severities and the rule catalogue *)

(* code_snippet=snippet[:100] *)
SnippetLimit == 100

SeverityNames == {"CRITICAL", "HIGH", "MEDIUM", "LOW"}

SeverityValue(s) ==
    CASE s = "CRITICAL" -> 4
      [] s = "HIGH" -> 3
      [] s = "MEDIUM" -> 2
      [] s = "LOW" -> 1

SECRETS_PATTERNS ==
    << "SEC-001", "SEC-002", "SEC-003", "SEC-004", "SEC-005", "SEC-006",
       "SEC-007", "SEC-008", "SEC-009", "SEC-010", "SEC-011", "SEC-012",
       "SEC-013", "SEC-014", "SEC-015", "SEC-016" >>

INJECTION_PATTERNS ==
    << [category |-> "sql",
        patterns |-> <<"INJ-001", "INJ-002", "INJ-003", "INJ-004", "INJ-005", "INJ-006">>],
       [category |-> "command",
        patterns |-> <<"INJ-010", "INJ-011", "INJ-012", "INJ-013", "INJ-014">>],
       [category |-> "xss",
        patterns |-> <<"INJ-020", "INJ-021", "INJ-022", "INJ-023", "INJ-024", "INJ-025">>],
       [category |-> "nosql",
        patterns |-> <<"INJ-030", "INJ-031", "INJ-032">>] >>

AUTH_PATTERNS ==
    << "AUTH-001", "AUTH-002", "AUTH-003", "AUTH-004", "AUTH-010", "AUTH-011",
       "AUTH-020", "AUTH-021" >>

CRYPTO_PATTERNS ==
    << "CRYPTO-001", "CRYPTO-002", "CRYPTO-003", "CRYPTO-010", "CRYPTO-011",
       "CRYPTO-012" >>

CLOUD_PATTERNS ==
    << "CLOUD-001", "CLOUD-002", "CLOUD-003", "CLOUD-010", "CLOUD-011",
       "CLOUD-012", "CLOUD-020", "CLOUD-021" >>

DATA_PATTERNS == << "DATA-001", "DATA-002", "DATA-003", "DATA-010" >>

RECURSIVE Repeat(_, _)
Repeat(text, n) ==
    IF n = 0 THEN ""
    ELSE IF n % 2 = 0 THEN Repeat(text \o text, n \div 2)
    ELSE text \o Repeat(text, n - 1)

(* A sample line of 117 characters, longer than a snippet may be *)
LongLine == "os.system(cmd) # " \o Repeat("x", SnippetLimit)

(* The rule ids whose pattern matches a sample line (re.IGNORECASE |        *)
(* re.MULTILINE); every sample line holds at most one match of a rule.      *)
LineMatches(line) ==
    CASE line = "password = \"changeme\"" -> {"SEC-011", "SEC-012"}
      [] line = "os.system(cmd)" -> {"INJ-010"}
      [] line = "document.write(x)" -> {"INJ-021"}
      [] line = "hashlib.md5(p)" -> {"AUTH-001"}
      [] line = "DES(k)" -> {"CRYPTO-001"}
      [] line = "ACL = \"public-read\"" -> {"CLOUD-020"}
      [] line = "pickle.loads(b)" -> {"DATA-001"}
      [] line = "\tpassword = \"changeme\"  " -> {"SEC-011", "SEC-012"}
      [] line = "\"changeme\"" -> {"SEC-011"}
      [] line = "cursor.execute(f\"SELECT 1\")" -> {"INJ-002"}
      [] line = "db.find(req.body)" -> {"INJ-030"}
      [] line = "os.system(a); os.system(b)" -> {"INJ-010"}
      [] line = "  os.system(cmd)\r" -> {"INJ-010"}
      [] line = LongLine -> {"INJ-010"}
      [] OTHER -> {}

(* match.start() of the matches of a rule that lie within one sample line, *)
(* as offsets from the start of the line, in text order                    *)
MatchColumns(rule_id, line) ==
    IF rule_id \notin LineMatches(line) THEN <<>>
    ELSE CASE line = "password = \"changeme\"" /\ rule_id = "SEC-011" -> <<11>>
           [] line = "\tpassword = \"changeme\"  " /\ rule_id = "SEC-011" -> <<12>>
           [] line = "\tpassword = \"changeme\"  " /\ rule_id = "SEC-012" -> <<1>>
           [] line = "os.system(a); os.system(b)" -> <<0, 14>>
           [] line = "  os.system(cmd)\r" -> <<2>>
           [] line = "cursor.execute(f\"SELECT 1\")" -> <<7>>
           [] line = "db.find(req.body)" -> <<2>>
           [] OTHER -> <<0>>

(* The matches of a rule that start in one line and end in the next (\s    *)
(* matches the newline): SEC-012 on an assignment broken after the `=`     *)
SpanColumns(rule_id, line, next_line) ==
    IF rule_id = "SEC-012" /\ line = "password =" /\ next_line = "\"changeme\""
    THEN <<0>> ELSE <<>>

-----------------------------------------------------------------------------
(* The files of a target tree *)

(* A file: whether read_text succeeds, whether its bytes hold invalid      *)
(* UTF-8 (dropped by errors='ignore'), and the lines of the decoded text.  *)
UnreadableFile == [readable |-> FALSE, invalid_bytes |-> FALSE, lines |-> <<"">>]

TextFile(lines) == [readable |-> TRUE, invalid_bytes |-> FALSE, lines |-> lines]

DamagedFile(lines) == [readable |-> TRUE, invalid_bytes |-> TRUE, lines |-> lines]

FileSet ==
    { UnreadableFile,
      TextFile(<<"">>),
      TextFile(<<"x = 1", "hashlib.md5(p)">>),
      TextFile(<<"password = \"changeme\"">>),
      TextFile(<<"document.write(x)", "os.system(cmd)">>),
      DamagedFile(<<"">>),
      DamagedFile(<<"password = \"changeme\"">>) }

PathNames == <<"a.py", "b.js", "c.ts", "d.env">>

(* Where a file is: the directories from the root down to it, and its name *)
Place(dirs, name) == [dirs |-> dirs, name |-> name]

(* The files of a tree all in the root directory, named in walk order *)
RootPlaces(files) == [i \in 1..Len(files) |-> Place(<<>>, PathNames[i])]

Trees == UNION { [1..n -> FileSet] : n \in 0..MaxFiles }


-----------------------------------------------------------------------------
(* scan_security.py: SecurityScanner *)

SCANNABLE_EXTENSIONS ==
    { ".py", ".js", ".ts", ".jsx", ".tsx", ".vue", ".svelte",
      ".java", ".kt", ".go", ".rs", ".rb", ".php",
      ".html", ".htm", ".json", ".yaml", ".yml", ".toml",
      ".env", ".config", ".conf" }

SKIP_DIRS ==
    { "node_modules", ".git", "__pycache__", ".next", ".nuxt",
      "dist", "build", ".venv", "venv", "env", ".env",
      "vendor", "target", ".idea", ".vscode" }

(* str.rfind('.'): the position of the last dot counted from 1, 0 if none *)
RECURSIVE RFindDot(_, _)
RFindDot(name, i) ==
    IF i = 0 THEN 0
    ELSE IF SubSeq(name, i, i) = "." THEN i
    ELSE RFindDot(name, i - 1)

(* Path.suffix: from the last dot on, unless that dot is the first or the  *)
(* last character of the name                                              *)
Suffix(name) ==
    LET dot == RFindDot(name, Len(name))
    IN  IF 1 < dot /\ dot < Len(name) THEN SubSeq(name, dot, Len(name)) ELSE ""

AsciiUppercase == "ABCDEFGHIJKLMNOPQRSTUVWXYZ"

AsciiLowercase == "abcdefghijklmnopqrstuvwxyz"

LowerChar(c) ==
    IF \E i \in 1..Len(AsciiUppercase) : SubSeq(AsciiUppercase, i, i) = c
    THEN LET i == CHOOSE i \in 1..Len(AsciiUppercase) : SubSeq(AsciiUppercase, i, i) = c
         IN  SubSeq(AsciiLowercase, i, i)
    ELSE c

(* str.lower() *)
RECURSIVE StrLower(_)
StrLower(text) ==
    IF text = "" THEN ""
    ELSE LowerChar(SubSeq(text, 1, 1)) \o StrLower(SubSeq(text, 2, Len(text)))

(* str.startswith *)
StartsWith(text, prefix) ==
    Len(text) >= Len(prefix) /\ SubSeq(text, 1, Len(prefix)) = prefix

(* line 188: os.walk never descends into a directory named in SKIP_DIRS *)
IsWalked(place) == \A k \in 1..Len(place.dirs) : place.dirs[k] \notin SKIP_DIRS

(* line 192 *)
IsScannable(name) ==
    StrLower(Suffix(name)) \in SCANNABLE_EXTENSIONS \/ StartsWith(name, ".env")

(* Mutant of Candidates: the walk ends at the first file that is passed    *)
(* over                                                                    *)
CandidatesBreaking(where) ==
    SelectSeq([i \in 1..Len(where) |-> i],
              LAMBDA i : \A j \in 1..i :
                            IsWalked(where[j]) /\ IsScannable(where[j].name))

(* Mutant of Candidates: only the directories of the root are pruned *)
CandidatesRootPruned(where) ==
    SelectSeq([i \in 1..Len(where) |-> i],
              LAMBDA i : /\ (where[i].dirs # <<>> => where[i].dirs[1] \notin SKIP_DIRS)
                         /\ IsScannable(where[i].name))

(* _get_files: the positions in the walk of the files it yields, in order *)
Candidates(where) ==
    SelectSeq([i \in 1..Len(where) |-> i],
              LAMBDA i : IsWalked(where[i]) /\ IsScannable(where[i].name))

(* The position in the walk of the file yielded last *)
Current == Candidates(places)[yielded]

(* str(file_path.relative_to(self.root)) *)
RECURSIVE RelativePath(_, _)
RelativePath(dirs, name) ==
    IF dirs = <<>> THEN name
    ELSE Head(dirs) \o "/" \o RelativePath(Tail(dirs), name)

Finding(rule_id, severity, category, file_path, line_number, code_snippet) ==
    [rule_id |-> rule_id, severity |-> severity, category |-> category,
     file_path |-> file_path, line_number |-> line_number,
     code_snippet |-> code_snippet]

(* content = '\n'.join(lines) *)
RECURSIVE Join(_)
Join(lines) ==
    IF lines = <<>> THEN ""
    ELSE IF Len(lines) = 1 THEN lines[1]
    ELSE lines[1] \o "\n" \o Join(Tail(lines))

(* The offset in content of the first character of line i *)
RECURSIVE LineOffset(_, _)
LineOffset(lines, i) ==
    IF i = 1 THEN 0 ELSE LineOffset(lines, i - 1) + Len(lines[i - 1]) + 1

(* re.finditer(pattern, content): match.start() of the matches of one rule *)
(* in text order                                                           *)
RECURSIVE RuleMatchStarts(_, _, _)
RuleMatchStarts(rule_id, lines, i) ==
    IF i > Len(lines) THEN <<>>
    ELSE LET columns == (IF i < Len(lines)
                         THEN SpanColumns(rule_id, lines[i], lines[i + 1])
                         ELSE <<>>)
                        \o MatchColumns(rule_id, lines[i])
         IN  [k \in 1..Len(columns) |-> LineOffset(lines, i) + columns[k]]
             \o RuleMatchStarts(rule_id, lines, i + 1)

(* str.count('\n') *)
CountNewlines(text) == Cardinality({ i \in 1..Len(text) : SubSeq(text, i, i) = "\n" })

(* Mutant of LineNumber: the lines are counted from two *)
LineNumberFromTwo(content, start) == CountNewlines(SubSeq(content, 1, start)) + 2

(* line 242: line_num = content[:match.start()].count('\n') + 1 *)
LineNumber(content, start) == CountNewlines(SubSeq(content, 1, start)) + 1

(* The characters str.strip() removes *)
Whitespace == {" ", "\t", "\n", "\r", "\f"}

(* str.strip(): from the first to the last character that is not whitespace *)
Strip(text) ==
    LET kept == { i \in 1..Len(text) : SubSeq(text, i, i) \notin Whitespace }
    IN  IF kept = {} THEN ""
        ELSE SubSeq(text,
                    CHOOSE i \in kept : \A j \in kept : i <= j,
                    CHOOSE i \in kept : \A j \in kept : j <= i)

(* text[:n] *)
Prefix(text, n) == SubSeq(text, 1, IF Len(text) < n THEN Len(text) ELSE n)

(* Mutant of CodeSnippet: the line is neither stripped nor cut *)
CodeSnippetWholeLine(lines, line_num) ==
    IF line_num <= Len(lines) THEN lines[line_num] ELSE ""

(* lines 245 and 254: the stripped line of the match, cut to 100 characters *)
CodeSnippet(lines, line_num) ==
    Prefix(IF line_num <= Len(lines) THEN Strip(lines[line_num]) ELSE "", SnippetLimit)

(* Mutant of RuleFindings: a rule is reported once per file, at its first  *)
(* match                                                                    *)
RuleFindingsOnce(rule_id, lines, category, severity, file_path) ==
    LET content == Join(lines)
        starts == RuleMatchStarts(rule_id, lines, 1)
    IN  IF starts = <<>> THEN <<>>
        ELSE <<Finding(rule_id, severity, category, file_path,
                       LineNumber(content, starts[1]),
                       CodeSnippet(lines, LineNumber(content, starts[1])))>>

(* lines 240-255: one Finding per match of the rule *)
RuleFindings(rule_id, lines, category, severity, file_path) ==
    LET content == Join(lines)
        starts == RuleMatchStarts(rule_id, lines, 1)
    IN  [k \in 1..Len(starts) |->
            Finding(rule_id, severity, category, file_path,
                    LineNumber(content, starts[k]),
                    CodeSnippet(lines, LineNumber(content, starts[k])))]

(* _check_patterns: the rules in table order, each rule's matches in text order *)
RECURSIVE CheckPatternsFrom(_, _, _, _, _, _)
CheckPatternsFrom(k, file_path, lines, patterns, category, severity) ==
    IF k > Len(patterns) THEN <<>>
    ELSE RuleFindings(patterns[k], lines, category, severity, file_path)
         \o CheckPatternsFrom(k + 1, file_path, lines, patterns, category, severity)

CheckPatterns(file_path, lines, patterns, category, severity) ==
    CheckPatternsFrom(1, file_path, lines, patterns, category, severity)

(* `not checks or name in checks`; no selection (None) is the empty set *)
Applies(checks, name) == checks = {} \/ name \in checks

(* Mutant of InjectionSeverity: the other injection categories are MEDIUM *)
InjectionSeverityMedium(category) ==
    IF category \in {"sql", "command"} THEN "CRITICAL" ELSE "MEDIUM"

(* Mutant of InjectionSeverity: every injection finding is CRITICAL *)
InjectionSeverityAllCritical(category) == "CRITICAL"

(* line 211: CRITICAL if category in ['sql', 'command'] else HIGH *)
InjectionSeverity(category) ==
    IF category \in {"sql", "command"} THEN "CRITICAL" ELSE "HIGH"

InjectionCategory(category) ==
    CASE category = "sql" -> "Injection (sql)"
      [] category = "command" -> "Injection (command)"
      [] category = "xss" -> "Injection (xss)"
      [] category = "nosql" -> "Injection (nosql)"

RECURSIVE InjectionFindingsFrom(_, _, _)
InjectionFindingsFrom(k, file_path, lines) ==
    IF k > Len(INJECTION_PATTERNS) THEN <<>>
    ELSE LET set == INJECTION_PATTERNS[k]
         IN  CheckPatterns(file_path, lines, set.patterns,
                           InjectionCategory(set.category),
                           InjectionSeverity(set.category))
             \o InjectionFindingsFrom(k + 1, file_path, lines)

(* read_text(encoding='utf-8', errors='ignore'): raises when the file      *)
(* cannot be read; invalid bytes are dropped and the rest is the text.     *)
ReadText(file) ==
    IF file.readable THEN [raised |-> FALSE, lines |-> file.lines]
    ELSE [raised |-> TRUE, lines |-> <<>>]

(* _scan_file: the findings one file adds; an exception adds none *)
ScanFileFindings(file, file_path, checks) ==
    LET read == ReadText(file)
        lines == read.lines
    IN  IF read.raised THEN <<>>
        ELSE (IF Applies(checks, "secrets")
              THEN CheckPatterns(file_path, lines, SECRETS_PATTERNS, "Secrets", "CRITICAL")
              ELSE <<>>)
          \o (IF Applies(checks, "injection")
              THEN InjectionFindingsFrom(1, file_path, lines)
              ELSE <<>>)
          \o (IF Applies(checks, "auth")
              THEN CheckPatterns(file_path, lines, AUTH_PATTERNS, "Authentication", "HIGH")
              ELSE <<>>)
          \o (IF Applies(checks, "crypto")
              THEN CheckPatterns(file_path, lines, CRYPTO_PATTERNS, "Cryptography", "HIGH")
              ELSE <<>>)
          \o (IF Applies(checks, "cloud")
              THEN CheckPatterns(file_path, lines, CLOUD_PATTERNS, "Cloud/Infrastructure", "HIGH")
              ELSE <<>>)
          \o (IF Applies(checks, "data")
              THEN CheckPatterns(file_path, lines, DATA_PATTERNS, "Data Handling", "HIGH")
              ELSE <<>>)

(* The rule tables of lines 52-153 a scanner process runs with: as they    *)
(* are written, or with one of two defects.  Nothing between the tables    *)
(* and main validates them.                                                 *)
Shipped == "shipped"

(* The pattern of the first rule of AUTH_PATTERNS does not compile *)
Malformed == "malformed"

(* The first rule of DATA_PATTERNS carries the id of a rule of SECRETS_PATTERNS *)
Duplicate == "duplicate"

Catalogs == {Shipped, Malformed, Duplicate}

DuplicateRule == DATA_PATTERNS[1]

DuplicateId == SECRETS_PATTERNS[11]

(* _scan_file when the first pattern of AUTH_PATTERNS is malformed:         *)
(* re.finditer (line 237) raises re.error when _check_patterns reaches it,  *)
(* `except Exception: pass` (lines 229-230) swallows it, and the findings   *)
(* the earlier rule sets appended stay.  A selection without 'auth' never   *)
(* reaches the pattern.                                                     *)
ScanFileFindingsMalformed(file, file_path, checks) ==
    LET read == ReadText(file)
        lines == read.lines
    IN  IF read.raised THEN <<>>
        ELSE IF ~Applies(checks, "auth") THEN ScanFileFindings(file, file_path, checks)
        ELSE (IF Applies(checks, "secrets")
              THEN CheckPatterns(file_path, lines, SECRETS_PATTERNS, "Secrets", "CRITICAL")
              ELSE <<>>)
          \o (IF Applies(checks, "injection")
              THEN InjectionFindingsFrom(1, file_path, lines)
              ELSE <<>>)

(* _scan_file when two rules carry one id: line 248 copies the id of the   *)
(* table entry into the finding                                             *)
ScanFileFindingsDuplicate(file, file_path, checks) ==
    LET fs == ScanFileFindings(file, file_path, checks)
    IN  [i \in 1..Len(fs) |->
            IF fs[i].rule_id = DuplicateRule
            THEN [fs[i] EXCEPT !.rule_id = DuplicateId]
            ELSE fs[i]]

(* _scan_file under the rule tables the process runs with *)
ScanFileUnder(tables, file, file_path, checks) ==
    CASE tables = Shipped -> ScanFileFindings(file, file_path, checks)
      [] tables = Malformed -> ScanFileFindingsMalformed(file, file_path, checks)
      [] tables = Duplicate -> ScanFileFindingsDuplicate(file, file_path, checks)

(* Mutant of GetBySeverity: the findings at or above the severity *)
GetBySeverityAtLeast(fs, severity) ==
    SelectSeq(fs, LAMBDA f : SeverityValue(f.severity) >= SeverityValue(severity))

(* ScanResult.get_by_severity *)
GetBySeverity(fs, severity) == SelectSeq(fs, LAMBDA f : f.severity = severity)

(* ScanResult.has_critical *)
HasCritical(fs) == Len(GetBySeverity(fs, "CRITICAL")) > 0

(* Mutant of KeepsFinding: `>` for `>=`, the threshold itself is dropped *)
KeepsFindingStrict(f, min_severity) ==
    SeverityValue(f.severity) > SeverityValue(min_severity)

(* main, line 344: the test of the minimum-severity filter *)
KeepsFinding(f, min_severity) ==
    SeverityValue(f.severity) >= SeverityValue(min_severity)

(* main, line 344: the list comprehension *)
RECURSIVE FilterBySeverity(_, _)
FilterBySeverity(fs, min_severity) ==
    IF fs = <<>> THEN <<>>
    ELSE (IF KeepsFinding(Head(fs), min_severity) THEN <<Head(fs)>> ELSE <<>>)
         \o FilterBySeverity(Tail(fs), min_severity)

(* Severity[args.severity.upper()] *)
SeverityByName(name) ==
    CASE name = "critical" -> "CRITICAL"
      [] name = "high" -> "HIGH"
      [] name = "medium" -> "MEDIUM"
      [] name = "low" -> "LOW"

(* print_results: the figures printed (the JSON object; the console form   *)
(* prints the same tallies)                                                *)
PrintResults(fs, n_files) ==
    [kind |-> "results",
     files_scanned |-> n_files,
     total_findings |-> Len(fs),
     critical |-> Len(GetBySeverity(fs, "CRITICAL")),
     high |-> Len(GetBySeverity(fs, "HIGH")),
     medium |-> Len(GetBySeverity(fs, "MEDIUM")),
     low |-> Len(GetBySeverity(fs, "LOW")),
     findings |-> fs]

(* Mutant of Checks: --full does not override --check *)
ChecksIgnoringFull(a) == a.check

(* checks = None if args.full else args.check *)
Checks(a) == IF a.full THEN {} ELSE a.check

-----------------------------------------------------------------------------
(* scan_security.py: main *)

CheckChoices == {"secrets", "injection", "auth", "crypto", "cloud", "data", "xss"}

(* --check (action='append'): the set of the names given, empty when absent *)
CheckArgs == {{}, {"secrets"}, {"injection"}, {"xss"}, {"auth", "crypto"}}

SeverityArgs == {None, "critical", "high", "medium", "low"}

ScanArgs ==
    [check : CheckArgs, full : BOOLEAN, severity : SeverityArgs,
     fail_on_findings : BOOLEAN]

NoOutput == [kind |-> "none"]

Stdout(json, shape, items) == [json |-> json, shape |-> shape, items |-> items]

(* subprocess.run: the exception raised (None when it returns), the exit   *)
(* status and the output                                                   *)
Run(raised, returncode, stdout) ==
    [raised |-> raised, returncode |-> returncode, stdout |-> stdout]

NoRun == Run("FileNotFoundError", 0, Stdout(FALSE, "text", <<>>))

(* A target with no audit tool, no lock file and no manifest *)
NoDeps ==
    [pip |-> NoRun, lock_exists |-> FALSE, npm |-> NoRun,
     req_files |-> <<>>, pkg_files |-> <<>>]

(* print(f"Error: Path '{args.path}' does not exist") *)
ErrorOutput == [kind |-> "error"]

(* run_all_checks, lines 20-22: a field of results that is still None *)
NoneResult == [kind |-> "none"]

NoResults ==
    [project_info |-> NoneResult, security_findings |-> NoneResult,
     dependency_findings |-> NoneResult]

(* Nothing generated yet *)
NoReport ==
    [kind |-> "none", raised |-> None, lines |-> <<>>, rules |-> <<>>,
     results |-> <<>>]

(* No sub-process is run *)
NoProcs == [proj |-> "exit", sec |-> "exit", dep |-> "exit"]

(* lines 331-337: the path test, then SecurityScanner(args.path) *)
ScanMainStart ==
    /\ pc = "main"
    /\ IF ~pathExists
       THEN /\ output' = ErrorOutput
            /\ exitCode' = 1
            /\ pc' = "exited"
       ELSE /\ pc' = "scan"
            /\ UNCHANGED <<output, exitCode>>
    /\ findings' = <<>>
    /\ files_scanned' = 0
    /\ yielded' = 0
    /\ UNCHANGED <<pathExists, args, tree, places, previous, catalog, scanned, depState, reportState>>

(* Mutant of GetFiles: the file yielded last is never counted *)
GetFilesSkipLast ==
    /\ pc = "scan"
    /\ IF yielded < Len(Candidates(places))
       THEN /\ yielded' = yielded + 1
            /\ files_scanned' = IF yielded > 0 THEN files_scanned + 1 ELSE files_scanned
            /\ pc' = "scan_file"
       ELSE /\ pc' = "filter"
            /\ UNCHANGED <<yielded, files_scanned>>
    /\ UNCHANGED <<pathExists, args, tree, places, previous, catalog, findings, scanned, output, exitCode, depState, reportState>>

(* _get_files, one next() of the generator from scan()'s for loop: resumed *)
(* after a yield it first counts the file it had yielded (line 194), then  *)
(* runs to the next candidate or to the end of the walk.                   *)
GetFiles ==
    /\ pc = "scan"
    /\ files_scanned' = IF yielded > 0 THEN files_scanned + 1 ELSE files_scanned
    /\ IF yielded < Len(Candidates(places))
       THEN /\ yielded' = yielded + 1
            /\ pc' = "scan_file"
       ELSE /\ pc' = "filter"
            /\ UNCHANGED yielded
    /\ UNCHANGED <<pathExists, args, tree, places, previous, catalog, findings, scanned, output, exitCode, depState, reportState>>

(* Mutant of ScanFile: no try/except, a failed read ends the process *)
ScanFileRaising ==
    /\ pc = "scan_file"
    /\ IF ReadText(tree[Current]).raised
       THEN /\ pc' = "exited"
            /\ exitCode' = 1
            /\ UNCHANGED findings
       ELSE /\ findings' = findings \o
                   ScanFileFindings(tree[Current],
                            RelativePath(places[Current].dirs, places[Current].name),
                            Checks(args))
            /\ pc' = "scan"
            /\ UNCHANGED exitCode
    /\ UNCHANGED <<pathExists, args, tree, places, previous, catalog, yielded, files_scanned, scanned, output,
                   depState, reportState>>

(* _scan_file on the file just yielded *)
ScanFile ==
    /\ pc = "scan_file"
    /\ findings' = findings \o
           ScanFileUnder(catalog, tree[Current],
                            RelativePath(places[Current].dirs, places[Current].name),
                            Checks(args))
    /\ pc' = "scan"
    /\ UNCHANGED <<pathExists, args, tree, places, previous, catalog, yielded, files_scanned, scanned,
                   output, exitCode, depState, reportState>>

(* Mutant of ExitStatus: the flag is not consulted *)
ExitStatusAnyFinding(fail_on_findings, fs) ==
    IF fs # <<>> THEN 1 ELSE 0

(* lines 349-350: sys.exit(1) or the normal end *)
ExitStatus(fail_on_findings, fs) ==
    IF fail_on_findings /\ fs # <<>> THEN 1 ELSE 0

(* lines 341-350: the severity filter, print_results, the exit status *)
ScanMainReport ==
    /\ pc = "filter"
    /\ scanned' = findings
    /\ findings' = IF args.severity # None
                   THEN FilterBySeverity(findings, SeverityByName(args.severity))
                   ELSE findings
    /\ output' = PrintResults(findings', files_scanned)
    /\ exitCode' = ExitStatus(args.fail_on_findings, findings')
    /\ pc' = "exited"
    /\ UNCHANGED <<pathExists, args, tree, places, previous, catalog, yielded, files_scanned, depState, reportState>>

InitScan ==
    /\ pc = "main"
    /\ pathExists \in BOOLEAN
    /\ args \in ScanArgs
    /\ tree \in (IF pathExists THEN Trees ELSE {<<>>})
    /\ places = RootPlaces(tree)
    /\ yielded = 0
    /\ findings = <<>>
    /\ files_scanned = 0
    /\ scanned = <<>>
    /\ previous = NoOutput
    /\ catalog = Shipped
    /\ output = NoOutput
    /\ exitCode = -1
    /\ deps = NoDeps
    /\ depFindings = <<>>
    /\ project = NoneResult
    /\ procs = NoProcs
    /\ results = NoResults
    /\ report = NoReport

NextScan == ScanMainStart \/ GetFiles \/ ScanFile \/ ScanMainReport

SpecScan == InitScan /\ [][NextScan]_vars

-----------------------------------------------------------------------------
(* The scanner on targets with sub-directories, files it passes over, and  *)
(* lines that are indented, long, matched twice or matched across a line   *)
(* break                                                                    *)

WalkEntry(dirs, name, lines) == [place |-> Place(dirs, name), file |-> TextFile(lines)]

(* The files of the sample target in the order os.walk meets them: those   *)
(* of the root, then those of each sub-directory                           *)
WalkEntries ==
    << WalkEntry(<<>>, "a.py", <<"x = 1", "\tpassword = \"changeme\"  ">>),
       WalkEntry(<<>>, ".env.local",
                 <<"password =", "\"changeme\"", "  os.system(cmd)\r", "">>),
       WalkEntry(<<>>, "README.md", <<"password = \"changeme\"">>),
       WalkEntry(<<>>, "Makefile", <<"password = \"changeme\"">>),
       WalkEntry(<<"Node_Modules">>, "b.py", <<"hashlib.md5(p)">>),
       WalkEntry(<<"node_modules">>, "a.py", <<"password = \"changeme\"">>),
       WalkEntry(<<"src">>, "App.JS", <<"os.system(a); os.system(b)", LongLine>>),
       WalkEntry(<<"src">>, "all.ts",
                 <<"DES(k)", "ACL = \"public-read\"", "pickle.loads(b)",
                   "cursor.execute(f\"SELECT 1\")", "db.find(req.body)",
                   "hashlib.md5(p)", "document.write(x)">>),
       WalkEntry(<<"src", "build">>, "index.js", <<"password = \"changeme\"">>) >>

(* The targets made of at most MaxWalkFiles of these files *)
WalkTargets ==
    { SelectSeq(WalkEntries, LAMBDA e : e \in chosen) :
        chosen \in { c \in SUBSET { WalkEntries[i] : i \in 1..Len(WalkEntries) } :
                        Cardinality(c) <= MaxWalkFiles } }

InitWalk ==
    /\ pc = "main"
    /\ pathExists = TRUE
    /\ args \in { a \in ScanArgs : a.severity = None /\ ~a.fail_on_findings }
    /\ \E target \in WalkTargets :
          /\ tree = [i \in 1..Len(target) |-> target[i].file]
          /\ places = [i \in 1..Len(target) |-> target[i].place]
    /\ yielded = 0
    /\ findings = <<>>
    /\ files_scanned = 0
    /\ scanned = <<>>
    /\ previous = NoOutput
    /\ catalog = Shipped
    /\ output = NoOutput
    /\ exitCode = -1
    /\ deps = NoDeps
    /\ depFindings = <<>>
    /\ project = NoneResult
    /\ procs = NoProcs
    /\ results = NoResults
    /\ report = NoReport

NextWalk == ScanMainStart \/ GetFiles \/ ScanFile \/ ScanMainReport

SpecWalk == InitWalk /\ [][NextWalk]_vars

(* A scanner process started with any of the rule tables of Catalogs, on   *)
(* the walked targets                                                       *)
InitCatalog ==
    /\ pc = "main"
    /\ pathExists = TRUE
    /\ args \in { a \in ScanArgs : a.severity = None }
    /\ \E target \in WalkTargets :
          /\ tree = [i \in 1..Len(target) |-> target[i].file]
          /\ places = [i \in 1..Len(target) |-> target[i].place]
    /\ yielded = 0
    /\ findings = <<>>
    /\ files_scanned = 0
    /\ scanned = <<>>
    /\ previous = NoOutput
    /\ catalog \in Catalogs
    /\ output = NoOutput
    /\ exitCode = -1
    /\ deps = NoDeps
    /\ depFindings = <<>>
    /\ project = NoneResult
    /\ procs = NoProcs
    /\ results = NoResults
    /\ report = NoReport

NextCatalog == ScanMainStart \/ GetFiles \/ ScanFile \/ ScanMainReport

SpecCatalog == InitCatalog /\ [][NextCatalog]_vars

-----------------------------------------------------------------------------
(* The scanner run a second time on the same target, with os.walk meeting  *)
(* the files in another order                                               *)

IsPrefix(short, long) ==
    Len(short) <= Len(long) /\ SubSeq(long, 1, Len(short)) = short

(* os.walk(top-down): the files of a directory come before those of its    *)
(* sub-directories, and each sub-directory is walked to its end before the *)
(* next; the order within a directory is the one the file system gives     *)
IsWalkOrder(where) ==
    \A i \in 1..Len(where) :
        \A n \in 0..Len(where[i].dirs) :
            LET dir == SubSeq(where[i].dirs, 1, n)
            IN  /\ \A j \in 1..Len(where) :
                      (where[j].dirs = dir /\ IsPrefix(dir, where[i].dirs)
                          /\ where[i].dirs # dir) => j < i
                /\ \A j, k \in 1..Len(where) :
                      (j < k /\ k < i /\ IsPrefix(dir, where[j].dirs))
                          => IsPrefix(dir, where[k].dirs)

(* A new process scans the target of the process that has ended; the walk  *)
(* may meet the files in any other order                                   *)
Rescan ==
    /\ pc = "exited"
    /\ pathExists
    /\ previous = NoOutput
    /\ previous' = output
    /\ \E p \in Permutations(1..Len(places)) :
          /\ places' = [i \in 1..Len(places) |-> places[p[i]]]
          /\ tree' = [i \in 1..Len(tree) |-> tree[p[i]]]
          /\ IsWalkOrder(places')
    /\ pc' = "main"
    /\ yielded' = 0
    /\ findings' = <<>>
    /\ files_scanned' = 0
    /\ scanned' = <<>>
    /\ output' = NoOutput
    /\ exitCode' = -1
    /\ UNCHANGED <<pathExists, args, catalog, depState, reportState>>

NextRescan == ScanMainStart \/ GetFiles \/ ScanFile \/ ScanMainReport \/ Rescan

SpecRescan == InitWalk /\ [][NextRescan]_vars

-----------------------------------------------------------------------------
(* The minimum-severity filter of main applied to any list of findings *)

SampleFindings ==
    { Finding(r, s, "Secrets", "a.py", 1, "password = \"changeme\"") : r \in {"SEC-011", "SEC-012"}, s \in SeverityNames }

FindingLists == UNION { [1..n -> SampleFindings] : n \in 0..MaxFindings }

InitFilter ==
    /\ pc = "filter"
    /\ pathExists = TRUE
    /\ args \in [check : {{}}, full : {TRUE}, severity : SeverityArgs,
                 fail_on_findings : BOOLEAN]
    /\ tree = <<>>
    /\ places = <<>>
    /\ yielded = 0
    /\ findings \in FindingLists
    /\ files_scanned = 0
    /\ scanned = <<>>
    /\ previous = NoOutput
    /\ catalog = Shipped
    /\ output = NoOutput
    /\ exitCode = -1
    /\ deps = NoDeps
    /\ depFindings = <<>>
    /\ project = NoneResult
    /\ procs = NoProcs
    /\ results = NoResults
    /\ report = NoReport

NextFilter == ScanMainReport

SpecFilter == InitFilter /\ [][NextFilter]_vars

-----------------------------------------------------------------------------
(* check_dependencies.py: the reputation tables *)

HALLUCINATED_PACKAGES(ecosystem) ==
    IF ecosystem = "python"
    THEN { "huggingface-cli", "flask-security-utils", "django-rest-utils",
           "pytorch-utils", "tensorflow-utils", "numpy-tools", "pandas-utils",
           "scikit-utils", "aws-sdk", "google-cloud-utils", "openai-utils",
           "langchain-utils" }
    ELSE { "react-utils", "vue-utils", "next-utils", "express-utils",
           "node-utils", "typescript-utils", "mongodb-utils", "postgres-utils",
           "aws-sdk-utils", "stripe-utils" }

Advisory(range, info) == <<[range |-> range, info |-> info]>>

(* name -> the (version range label, advisory) entries catalogued for it *)
VULNERABLE_PACKAGES(ecosystem) ==
    IF ecosystem = "python"
    THEN ("pyyaml" :> Advisory("< 5.4", "CVE-2020-14343 - Arbitrary code execution"))
      @@ ("urllib3" :> Advisory("< 1.26.5", "CVE-2021-33503 - ReDoS"))
      @@ ("requests" :> Advisory("< 2.31.0", "CVE-2023-32681 - Header injection"))
      @@ ("cryptography" :> Advisory("< 41.0.0", "Multiple CVEs"))
      @@ ("pillow" :> Advisory("< 10.0.1", "CVE-2023-44271 - DoS"))
      @@ ("django" :> Advisory("< 4.2.4", "Multiple security fixes"))
      @@ ("flask" :> Advisory("< 2.3.2", "Security updates"))
      @@ ("jinja2" :> Advisory("< 3.1.2", "XSS vulnerability"))
      @@ ("werkzeug" :> Advisory("< 2.3.7", "Security updates"))
      @@ ("numpy" :> Advisory("< 1.22.0", "Buffer overflow"))
    ELSE ("lodash" :> Advisory("< 4.17.21", "CVE-2021-23337 - Command injection"))
      @@ ("axios" :> Advisory("< 1.6.0", "SSRF vulnerability"))
      @@ ("express" :> Advisory("< 4.18.2", "Multiple security fixes"))
      @@ ("jsonwebtoken" :> Advisory("< 9.0.0", "Multiple CVEs"))
      @@ ("mongoose" :> Advisory("< 6.10.0", "Prototype pollution"))
      @@ ("sequelize" :> Advisory("< 6.29.0", "SQL injection"))
      @@ ("minimist" :> Advisory("< 1.2.6", "Prototype pollution"))
      @@ ("node-fetch" :> Advisory("< 3.3.0", "Security updates"))
      @@ ("got" :> Advisory("< 11.8.5", "Security updates"))
      @@ ("ws" :> Advisory("< 8.11.0", "ReDoS"))

DependencyFinding(package, version, issue_type, severity, description, file_path) ==
    [package |-> package, version |-> version, issue_type |-> issue_type,
     severity |-> severity, description |-> description, file_path |-> file_path]

(* A path relative to the root: the number of the directory and the name *)
RelPath(dir, name) == [dir |-> dir, name |-> name]

(* str.lower() *)
Lower(name) == StrLower(name)

(* str.upper() on the severities npm audit reports *)
Upper(name) ==
    CASE name = "critical" -> "CRITICAL"
      [] name = "high" -> "HIGH"
      [] name = "moderate" -> "MODERATE"
      [] name = "low" -> "LOW"
      [] name = "info" -> "INFO"
      [] name = "unknown" -> "UNKNOWN"

-----------------------------------------------------------------------------
(* check_dependencies.py: DependencyChecker *)

(* Mutant of VulnerableFindings: a package that declares a version is not  *)
(* reported                                                                *)
VulnerableFindingsUnversioned(pkg, version, entries, file_path) ==
    IF version # None THEN <<>>
    ELSE [k \in 1..Len(entries) |->
            DependencyFinding(pkg, version, "vulnerable", "HIGH",
                              <<pkg, entries[k].range, entries[k].info>>, file_path)]

(* the loop over the advisory entries of a package, lines 169-178 and 216-225 *)
VulnerableFindings(pkg, version, entries, file_path) ==
    [k \in 1..Len(entries) |->
        DependencyFinding(pkg, version, "vulnerable", "HIGH",
                          <<pkg, entries[k].range, entries[k].info>>, file_path)]

(* _check_python_package *)
CheckPythonPackage(pkg, version, file_path) ==
    LET pkg_lower == Lower(pkg)
    IN  (IF pkg_lower \in HALLUCINATED_PACKAGES("python")
         THEN <<DependencyFinding(pkg, version, "hallucinated", "CRITICAL",
                                  <<pkg, "hallucinated">>, file_path)>>
         ELSE <<>>)
     \o (IF pkg_lower \in DOMAIN VULNERABLE_PACKAGES("python")
         THEN VulnerableFindings(pkg, version, VULNERABLE_PACKAGES("python")[pkg_lower],
                                 file_path)
         ELSE <<>>)

(* Mutant of CheckNpmPackage: an unpinned version is reported only for a   *)
(* package that has no other finding                                       *)
CheckNpmPackageQuiet(pkg, version, file_path) ==
    LET pkg_lower == Lower(pkg)
        known == (IF pkg_lower \in HALLUCINATED_PACKAGES("npm")
                  THEN <<DependencyFinding(pkg, version, "hallucinated", "CRITICAL",
                                           <<pkg, "hallucinated">>, file_path)>>
                  ELSE <<>>)
              \o (IF pkg_lower \in DOMAIN VULNERABLE_PACKAGES("npm")
                  THEN VulnerableFindings(pkg, version,
                                          VULNERABLE_PACKAGES("npm")[pkg_lower], file_path)
                  ELSE <<>>)
    IN  IF known # <<>> THEN known
        ELSE IF version \in {"*", "latest", ""}
        THEN <<DependencyFinding(pkg, version, "suspicious", "MEDIUM",
                                 <<pkg, "unpinned", version>>, file_path)>>
        ELSE <<>>

(* _check_npm_package *)
CheckNpmPackage(pkg, version, file_path) ==
    LET pkg_lower == Lower(pkg)
    IN  (IF pkg_lower \in HALLUCINATED_PACKAGES("npm")
         THEN <<DependencyFinding(pkg, version, "hallucinated", "CRITICAL",
                                  <<pkg, "hallucinated">>, file_path)>>
         ELSE <<>>)
     \o (IF pkg_lower \in DOMAIN VULNERABLE_PACKAGES("npm")
         THEN VulnerableFindings(pkg, version, VULNERABLE_PACKAGES("npm")[pkg_lower],
                                 file_path)
         ELSE <<>>)
     \o (IF version \in {"*", "latest", ""}
         THEN <<DependencyFinding(pkg, version, "suspicious", "MEDIUM",
                                  <<pkg, "unpinned", version>>, file_path)>>
         ELSE <<>>)

(* line 129: blank lines, comments and option lines are skipped *)
IsSkippedLine(line) == line = "" \/ StartsWith(line, "#") \/ StartsWith(line, "-")

Digits == "0123456789"

(* [a-zA-Z0-9_-] *)
NameChars ==
    { SubSeq(AsciiUppercase, i, i) : i \in 1..Len(AsciiUppercase) }
    \cup { SubSeq(AsciiLowercase, i, i) : i \in 1..Len(AsciiLowercase) }
    \cup { SubSeq(Digits, i, i) : i \in 1..Len(Digits) }
    \cup {"_", "-"}

(* [=<>!~] *)
OperatorChars == {"=", "<", ">", "!", "~"}

(* The number of characters of text from position from on that a greedy    *)
(* [chars]* takes                                                          *)
RunLength(text, from, chars) ==
    CHOOSE n \in 0..(Len(text) - from + 1) :
        /\ \A i \in from..(from + n - 1) : SubSeq(text, i, i) \in chars
        /\ from + n <= Len(text) => SubSeq(text, from + n, from + n) \notin chars

(* A regular expression did not match *)
NoMatch == [matched |-> FALSE, name |-> "", version |-> None]

(* (?:([=<>!~]+)(.+))? at position from: the second group, or None when    *)
(* the optional part matches nothing. The operators are taken greedily and *)
(* the last of them is given back when nothing follows them.               *)
VersionAt(text, from) ==
    LET ops == RunLength(text, from, OperatorChars)
    IN  IF ops = 0 THEN None
        ELSE IF from + ops <= Len(text) THEN SubSeq(text, from + ops, Len(text))
        ELSE IF ops >= 2 THEN SubSeq(text, Len(text), Len(text))
        ELSE None

(* line 133: re.match of ^([a-zA-Z0-9_-]+)(?:\[.*\])?(?:([=<>!~]+)(.+))?   *)
(* on a stripped line; \[.*\] runs to the last `]` of the line             *)
RequirementMatch(line) ==
    LET n == RunLength(line, 1, NameChars)
        closing == { i \in (n + 2)..Len(line) : SubSeq(line, i, i) = "]" }
        after == IF n < Len(line) /\ SubSeq(line, n + 1, n + 1) = "[" /\ closing # {}
                 THEN (CHOOSE i \in closing : \A j \in closing : j <= i) + 1
                 ELSE n + 1
    IN  IF n = 0 THEN NoMatch
        ELSE [matched |-> TRUE, name |-> SubSeq(line, 1, n),
              version |-> VersionAt(line, after)]

(* line 147 on the text between the quotes of one entry of the array:      *)
(* ["\']([a-zA-Z0-9_-]+)(?:[=<>!~]+([^"\']+))?["\'] matches when the name  *)
(* runs to the closing quote or is followed by operators and a version     *)
PyprojectMatch(entry) ==
    LET n == RunLength(entry, 1, NameChars)
        ops == RunLength(entry, n + 1, OperatorChars)
    IN  IF n = 0 THEN NoMatch
        ELSE IF n = Len(entry)
        THEN [matched |-> TRUE, name |-> entry, version |-> None]
        ELSE IF ops = 0 \/ VersionAt(entry, n + 1) = None THEN NoMatch
        ELSE [matched |-> TRUE, name |-> SubSeq(entry, 1, n),
              version |-> VersionAt(entry, n + 1)]

(* line 144: dependencies\s*=\s*\[(.*?)\] ends the array at the first `]`, *)
(* so an entry that holds one, and every entry after it, is cut off        *)
RECURSIVE ArrayEntries(_)
ArrayEntries(entries) ==
    IF entries = <<>> THEN <<>>
    ELSE IF \E i \in 1..Len(Head(entries)) : SubSeq(Head(entries), i, i) = "]"
    THEN <<>>
    ELSE <<Head(entries)>> \o ArrayEntries(Tail(entries))

(* packages[pkg] = version: a dict keeps the place of the first insertion *)
DictPut(packages, pkg, version) ==
    IF \E k \in 1..Len(packages) : packages[k].pkg = pkg
    THEN [k \in 1..Len(packages) |->
            IF packages[k].pkg = pkg THEN [pkg |-> pkg, version |-> version]
            ELSE packages[k]]
    ELSE Append(packages, [pkg |-> pkg, version |-> version])

(* _parse_requirements_txt *)
RECURSIVE ParseRequirementsTxt(_, _)
ParseRequirementsTxt(lines, packages) ==
    IF lines = <<>> THEN packages
    ELSE LET line == Strip(Head(lines))
             m == RequirementMatch(line)
         IN  IF IsSkippedLine(line) \/ ~m.matched
             THEN ParseRequirementsTxt(Tail(lines), packages)
             ELSE ParseRequirementsTxt(Tail(lines),
                                       DictPut(packages, Lower(m.name), m.version))

(* lines 147-148: the matches among the entries left of the array *)
RECURSIVE PyprojectPackages(_, _)
PyprojectPackages(entries, packages) ==
    IF entries = <<>> THEN packages
    ELSE LET m == PyprojectMatch(Head(entries))
         IN  IF ~m.matched THEN PyprojectPackages(Tail(entries), packages)
             ELSE PyprojectPackages(Tail(entries),
                                    DictPut(packages, Lower(m.name), m.version))

(* _parse_pyproject: the entries of the dependencies array *)
ParsePyproject(entries, packages) == PyprojectPackages(ArrayEntries(entries), packages)

RECURSIVE PythonPackagesFindings(_, _)
PythonPackagesFindings(packages, file_path) ==
    IF packages = <<>> THEN <<>>
    ELSE CheckPythonPackage(Head(packages).pkg, Head(packages).version, file_path)
         \o PythonPackagesFindings(Tail(packages), file_path)

(* A requirements*.txt or pyproject.toml: whether its path holds           *)
(* node_modules or .venv, whether read_text succeeds, and the lines of the *)
(* text (txt) or the entries of its dependencies array (toml)              *)
ReqFile(kind, excluded, readable, lines) ==
    [kind |-> kind, excluded |-> excluded, readable |-> readable, lines |-> lines]

ReqFileSet ==
    { ReqFile("txt", FALSE, FALSE, <<>>),
      ReqFile("txt", FALSE, TRUE, <<"flask==2.0.0">>),
      ReqFile("txt", FALSE, TRUE,
              <<"# comment", "huggingface-cli", "requests[security]>=2.0">>),
      ReqFile("toml", FALSE, TRUE, <<"django>=3.0", "numpy-tools">>),
      ReqFile("txt", TRUE, TRUE, <<"huggingface-cli">>) }

(* Further manifests: entries written with blanks, extras, capitals, a     *)
(* dotted name, and a name declared twice                                  *)
ReqFileSamples ==
    ReqFileSet \cup
    { ReqFile("toml", FALSE, TRUE,
              <<"numpy-tools >= 1.0", "uvicorn[standard]>=0.2", "pandas-utils">>),
      ReqFile("txt", FALSE, TRUE,
              <<"Flask==2.0", "flask==3.0.0", "aws-sdk.core==1.0", "  Pandas-Utils >= 1.0">>) }

(* lines 113-116: the packages parsed from each sample file *)
Packages ==
    [file \in ReqFileSamples |->
        IF file.kind = "txt" THEN ParseRequirementsTxt(file.lines, <<>>)
        ELSE ParsePyproject(file.lines, <<>>)]

(* _check_requirements_files, the body of the loop for one file: a file    *)
(* under node_modules or .venv is passed over, a failed read adds nothing  *)
ReqFileFindings(file, file_path) ==
    IF file.excluded \/ ~file.readable THEN <<>>
    ELSE PythonPackagesFindings(Packages[file], file_path)

ReqFileName(file) == IF file.kind = "txt" THEN "requirements.txt" ELSE "pyproject.toml"

RECURSIVE ReqFilesFindingsFrom(_, _)
ReqFilesFindingsFrom(k, req_files) ==
    IF k > Len(req_files) THEN <<>>
    ELSE ReqFileFindings(req_files[k], RelPath(k, ReqFileName(req_files[k])))
         \o ReqFilesFindingsFrom(k + 1, req_files)

RECURSIVE NpmPackagesFindings(_, _)
NpmPackagesFindings(items, file_path) ==
    IF items = <<>> THEN <<>>
    ELSE CheckNpmPackage(Head(items).pkg, Head(items).version, file_path)
         \o NpmPackagesFindings(Tail(items), file_path)

(* lines 190-193 for one section: absent, a name -> version object, or a   *)
(* value of another shape, on which .items() raises                        *)
SectionResult(section, file_path) ==
    CASE section.shape = "absent" -> [raised |-> FALSE, added |-> <<>>]
      [] section.shape = "object" ->
            [raised |-> FALSE, added |-> NpmPackagesFindings(section.items, file_path)]
      [] OTHER -> [raised |-> TRUE, added |-> <<>>]

(* _check_package_json, the body of the loop for one file: what it has     *)
(* appended when the loop body ends, normally or in `except Exception`     *)
PkgFileFindings(file, file_path) ==
    IF file.excluded \/ ~file.readable \/ ~file.json THEN <<>>
    ELSE LET first == SectionResult(file.dependencies, file_path)
         IN  IF first.raised THEN first.added
             ELSE first.added \o SectionResult(file.devDependencies, file_path).added

RECURSIVE PkgFilesFindingsFrom(_, _)
PkgFilesFindingsFrom(k, pkg_files) ==
    IF k > Len(pkg_files) THEN <<>>
    ELSE PkgFileFindings(pkg_files[k], RelPath(k, "package.json"))
         \o PkgFilesFindingsFrom(k + 1, pkg_files)

(* lines 251-260: one finding per entry, until an entry raises (a `vulns`  *)
(* list that is empty has no [0])                                          *)
RECURSIVE PipVulnFindings(_)
PipVulnFindings(vulns) ==
    IF vulns = <<>> THEN <<>>
    ELSE IF Head(vulns).vulns = <<>> THEN <<>>
    ELSE <<DependencyFinding(Head(vulns).name, Head(vulns).version, "vulnerable",
                             "HIGH", <<Head(vulns).vulns[1]>>,
                             RelPath(0, "(installed)"))>>
         \o PipVulnFindings(Tail(vulns))

(* _check_python_deps: what one run of pip-audit adds *)
PipAuditFindings(run) ==
    IF run.raised # None THEN <<>>
    ELSE IF run.returncode # 0 THEN <<>>
    ELSE IF ~run.stdout.json THEN <<>>
    ELSE IF run.stdout.shape # "list" THEN <<>>
    ELSE PipVulnFindings(run.stdout.items)

(* lines 281-290: one finding per entry of `vulnerabilities`, until an     *)
(* entry raises (a `via` list that is empty has no [0])                    *)
RECURSIVE NpmVulnFindings(_)
NpmVulnFindings(items) ==
    IF items = <<>> THEN <<>>
    ELSE IF Head(items).via = <<>> THEN <<>>
    ELSE <<DependencyFinding(Head(items).pkg, Head(items).range, "vulnerable",
                             Upper(Head(items).severity), <<Head(items).via[1]>>,
                             RelPath(0, "package-lock.json"))>>
         \o NpmVulnFindings(Tail(items))

(* _check_npm_deps after the lock file test: what one run of npm audit     *)
(* adds; result.returncode is not read                                     *)
NpmAuditFindings(run) ==
    IF run.raised # None THEN <<>>
    ELSE IF ~run.stdout.json THEN <<>>
    ELSE IF run.stdout.shape # "object" THEN <<>>
    ELSE NpmVulnFindings(run.stdout.items)

(* print_results of check_dependencies.py *)
PrintDepResults(fs) ==
    [kind |-> "results", total_findings |-> Len(fs), findings |-> fs]

-----------------------------------------------------------------------------
(* check_dependencies.py: the target's audit tools and manifests *)

PipVuln(name, version, vulns) == [name |-> name, version |-> version, vulns |-> vulns]

PipRuns ==
    { NoRun,
      Run("TimeoutExpired", 0, Stdout(FALSE, "text", <<>>)),
      Run(None, 1, Stdout(TRUE, "list", <<PipVuln("requests", "2.0.0", <<"PYSEC-2023-74">>)>>)),
      Run(None, 0, Stdout(FALSE, "text", <<>>)),
      Run(None, 0, Stdout(TRUE, "list", <<PipVuln("requests", "2.0.0", <<"PYSEC-2023-74">>)>>)),
      Run(None, 0, Stdout(TRUE, "list", <<PipVuln("requests", "2.0.0", <<"PYSEC-2023-74">>),
                                           PipVuln("pyyaml", "5.3", <<>>)>>)) }

NpmVuln(pkg, range, severity, via) ==
    [pkg |-> pkg, range |-> range, severity |-> severity, via |-> via]

NpmRuns ==
    { NoRun,
      Run("TimeoutExpired", 0, Stdout(FALSE, "text", <<>>)),
      Run(None, 1, Stdout(FALSE, "text", <<>>)),
      Run(None, 0, Stdout(TRUE, "object", <<>>)),
      Run(None, 1, Stdout(TRUE, "object",
                          <<NpmVuln("lodash", "<4.17.21", "high", <<"Command Injection">>)>>)),
      Run(None, 1, Stdout(TRUE, "object",
                          <<NpmVuln("got", "<11.8.5", "moderate", <<"Redirect">>)>>)),
      Run(None, 1, Stdout(TRUE, "object",
                          <<NpmVuln("lodash", "<4.17.21", "high", <<"Command Injection">>),
                            NpmVuln("ws", "<8.11.0", "high", <<>>)>>)) }

Absent == [shape |-> "absent", items |-> <<>>]

Object(items) == [shape |-> "object", items |-> items]

Array == [shape |-> "array", items |-> <<>>]

Dep(pkg, version) == [pkg |-> pkg, version |-> version]

PkgFile(excluded, readable, json, dependencies, devDependencies) ==
    [excluded |-> excluded, readable |-> readable, json |-> json,
     dependencies |-> dependencies, devDependencies |-> devDependencies]

PkgFileSet ==
    { PkgFile(FALSE, FALSE, FALSE, Absent, Absent),
      PkgFile(FALSE, TRUE, FALSE, Absent, Absent),
      PkgFile(FALSE, TRUE, TRUE, Object(<<Dep("axios", "*")>>), Absent),
      PkgFile(FALSE, TRUE, TRUE, Object(<<Dep("react-utils", "^1.0.0")>>), Array),
      PkgFile(FALSE, TRUE, TRUE, Array, Object(<<Dep("lodash", "4.17.0")>>)),
      PkgFile(TRUE, TRUE, TRUE, Object(<<Dep("react-utils", "latest")>>), Absent) }

(* Further manifests: a package in both sections, unpinned versions of     *)
(* every spelling, a name in capitals                                      *)
PkgFileSamples ==
    PkgFileSet \cup
    { PkgFile(FALSE, TRUE, TRUE,
              Object(<<Dep("React-Utils", "latest"), Dep("lodash", "")>>),
              Object(<<Dep("react-utils", "1.0.0"), Dep("left-pad", "^1.3.0")>>)) }

(* req_files: the requirements*.txt found, then the pyproject.toml found *)
ReqFileLists ==
    { fs \in UNION { [1..n -> ReqFileSet] : n \in 0..MaxManifests } :
        \A i, j \in 1..Len(fs) : (i < j /\ fs[i].kind = "toml") => fs[j].kind = "toml" }

PkgFileLists == UNION { [1..n -> PkgFileSet] : n \in 0..MaxManifests }

Targets ==
    { d \in [pip : PipRuns, lock_exists : BOOLEAN, npm : NpmRuns,
             req_files : ReqFileLists, pkg_files : PkgFileLists] :
        /\ Len(d.req_files) + Len(d.pkg_files) <= MaxManifests
        /\ ~d.lock_exists => d.npm = NoRun }

-----------------------------------------------------------------------------
(* check_dependencies.py: main and DependencyChecker.check *)

(* lines 363-369: the path test, then DependencyChecker(args.path) *)
DepsMainStart ==
    /\ pc = "main"
    /\ IF ~pathExists
       THEN /\ output' = ErrorOutput
            /\ exitCode' = 1
            /\ pc' = "exited"
       ELSE /\ pc' = "python_deps"
            /\ UNCHANGED <<output, exitCode>>
    /\ depFindings' = <<>>
    /\ UNCHANGED <<pathExists, args, scanState, reportState, deps>>

(* _check_python_deps *)
CheckPythonDeps ==
    /\ pc = "python_deps"
    /\ depFindings' = depFindings \o PipAuditFindings(deps.pip)
    /\ pc' = "npm_deps"
    /\ UNCHANGED <<pathExists, args, scanState, reportState, deps, output, exitCode>>

(* Mutant of CheckNpmDeps: no try/except, a failed audit ends the process *)
CheckNpmDepsRaising ==
    /\ pc = "npm_deps"
    /\ IF deps.lock_exists /\ (deps.npm.raised # None \/ ~deps.npm.stdout.json)
       THEN /\ pc' = "exited"
            /\ exitCode' = 1
            /\ UNCHANGED depFindings
       ELSE /\ depFindings' = IF ~deps.lock_exists THEN depFindings
                              ELSE depFindings \o NpmAuditFindings(deps.npm)
            /\ pc' = "requirements"
            /\ UNCHANGED exitCode
    /\ UNCHANGED <<pathExists, args, scanState, reportState, deps, output>>

(* _check_npm_deps *)
CheckNpmDeps ==
    /\ pc = "npm_deps"
    /\ depFindings' = IF ~deps.lock_exists THEN depFindings
                      ELSE depFindings \o NpmAuditFindings(deps.npm)
    /\ pc' = "requirements"
    /\ UNCHANGED <<pathExists, args, scanState, reportState, deps, output, exitCode>>

(* _check_requirements_files *)
CheckRequirementsFiles ==
    /\ pc = "requirements"
    /\ depFindings' = depFindings \o ReqFilesFindingsFrom(1, deps.req_files)
    /\ pc' = "package_json"
    /\ UNCHANGED <<pathExists, args, scanState, reportState, deps, output, exitCode>>

(* _check_package_json *)
CheckPackageJson ==
    /\ pc = "package_json"
    /\ depFindings' = depFindings \o PkgFilesFindingsFrom(1, deps.pkg_files)
    /\ pc' = "report"
    /\ UNCHANGED <<pathExists, args, scanState, reportState, deps, output, exitCode>>

(* lines 374-375 *)
DepsExitStatus(fail_on_findings, fs) ==
    IF fail_on_findings /\ fs # <<>> THEN 1 ELSE 0

(* lines 370-375: check() has returned; print_results and the exit status *)
DepsMainReport ==
    /\ pc = "report"
    /\ output' = PrintDepResults(depFindings)
    /\ exitCode' = DepsExitStatus(args.fail_on_findings, depFindings)
    /\ pc' = "exited"
    /\ UNCHANGED <<pathExists, args, scanState, depState, reportState>>

InitDeps ==
    /\ pc = "main"
    /\ pathExists \in BOOLEAN
    /\ args \in [fail_on_findings : BOOLEAN]
    /\ deps \in (IF pathExists THEN Targets ELSE {NoDeps})
    /\ depFindings = <<>>
    /\ tree = <<>>
    /\ places = <<>>
    /\ yielded = 0
    /\ findings = <<>>
    /\ files_scanned = 0
    /\ scanned = <<>>
    /\ previous = NoOutput
    /\ catalog = Shipped
    /\ output = NoOutput
    /\ exitCode = -1
    /\ project = NoneResult
    /\ procs = NoProcs
    /\ results = NoResults
    /\ report = NoReport

NextDeps ==
    \/ DepsMainStart
    \/ CheckPythonDeps
    \/ CheckNpmDeps
    \/ CheckRequirementsFiles
    \/ CheckPackageJson
    \/ DepsMainReport

SpecDeps == InitDeps /\ [][NextDeps]_vars

-----------------------------------------------------------------------------
(* The dependency checker on targets without audit tools and with any of   *)
(* the sample manifests                                                     *)

ManifestTargets ==
    { d \in [pip : {NoRun}, lock_exists : {FALSE}, npm : {NoRun},
             req_files : { fs \in UNION { [1..n -> ReqFileSamples] : n \in 0..MaxManifests } :
                             \A i, j \in 1..Len(fs) :
                                 (i < j /\ fs[i].kind = "toml") => fs[j].kind = "toml" },
             pkg_files : UNION { [1..n -> PkgFileSamples] : n \in 0..MaxManifests }] :
        Len(d.req_files) + Len(d.pkg_files) <= MaxManifests }

InitManifests ==
    /\ pc = "main"
    /\ pathExists = TRUE
    /\ args \in [fail_on_findings : BOOLEAN]
    /\ deps \in ManifestTargets
    /\ depFindings = <<>>
    /\ tree = <<>>
    /\ places = <<>>
    /\ yielded = 0
    /\ findings = <<>>
    /\ files_scanned = 0
    /\ scanned = <<>>
    /\ previous = NoOutput
    /\ catalog = Shipped
    /\ output = NoOutput
    /\ exitCode = -1
    /\ project = NoneResult
    /\ procs = NoProcs
    /\ results = NoResults
    /\ report = NoReport

NextManifests ==
    \/ DepsMainStart
    \/ CheckPythonDeps
    \/ CheckNpmDeps
    \/ CheckRequirementsFiles
    \/ CheckPackageJson
    \/ DepsMainReport

SpecManifests == InitManifests /\ [][NextManifests]_vars

-----------------------------------------------------------------------------
(* detect_project.py: what the detector prints *)

(* _get_recommendations, line 269: list(dict.fromkeys(recommendations)) *)
RECURSIVE DictFromKeys(_, _)
DictFromKeys(names, seen) ==
    IF names = <<>> THEN <<>>
    ELSE IF Head(names) \in seen THEN DictFromKeys(Tail(names), seen)
    ELSE <<Head(names)>> \o DictFromKeys(Tail(names), seen \cup {Head(names)})

Contains(names, wanted) == \E k \in 1..Len(names) : names[k] \in wanted

(* _get_recommendations; no catalogued database name holds 'auth', so the  *)
(* second test of line 259 is false on every detected list                 *)
GetRecommendations(project_type, frameworks, databases, cloud, ai_tools) ==
    LET recommendations ==
               <<"secrets">>
            \o (IF databases # <<>> THEN <<"injection">> ELSE <<>>)
            \o (IF Contains(frameworks, {"flask", "django", "fastapi", "express",
                                         "next.js", "react", "vue"})
                THEN <<"xss", "auth", "cors">> ELSE <<>>)
            \o (IF cloud # <<>> \/ Contains(databases, {"supabase", "firebase"})
                THEN <<"cloud">> ELSE <<>>)
            \o (IF Contains(frameworks, {"django"}) THEN <<"crypto">> ELSE <<>>)
            \o (IF ai_tools # <<>> THEN <<"data">> ELSE <<>>)
    IN  DictFromKeys(IF Contains(ai_tools, {"lovable"})
                     THEN <<"cloud">> \o recommendations
                     ELSE recommendations,
                     {})

(* main, lines 286-295: the JSON object of a detection *)
ProjectInfo(project_type, frameworks, languages, databases, cloud_services, ai_tool_indicators) ==
    [kind |-> "project",
     project_type |-> project_type,
     frameworks |-> frameworks,
     languages |-> languages,
     databases |-> databases,
     cloud_services |-> cloud_services,
     ai_tool_indicators |-> ai_tool_indicators,
     recommended_checks |-> GetRecommendations(project_type, frameworks, databases,
                                               cloud_services, ai_tool_indicators)]

ProjectInfos ==
    { ProjectInfo("unknown", <<>>, <<>>, <<>>, <<>>, <<>>),
      ProjectInfo("node.js", <<"react">>, <<"javascript">>, <<"supabase">>, <<>>,
                  <<"lovable">>) }

-----------------------------------------------------------------------------
(* The three scripts as the sub-processes generate_report.py starts *)

(* scan(): _scan_file on every candidate file, in walk order *)
RECURSIVE ScanFrom(_, _, _, _)
ScanFrom(k, files, where, checks) ==
    IF k > Len(Candidates(where)) THEN <<>>
    ELSE LET i == Candidates(where)[k]
         IN  ScanFileFindings(files[i], RelativePath(where[i].dirs, where[i].name),
                              checks)
             \o ScanFrom(k + 1, files, where, checks)

(* scan_security.py main, lines 333-350: the exit status and the output *)
ScanProcess(exists, a, files, where) ==
    IF ~exists THEN Run(None, 1, ErrorOutput)
    ELSE LET found == ScanFrom(1, files, where, Checks(a))
             kept == IF a.severity # None
                     THEN FilterBySeverity(found, SeverityByName(a.severity))
                     ELSE found
         IN  Run(None, ExitStatus(a.fail_on_findings, kept),
                 PrintResults(kept, Len(Candidates(where))))

(* DependencyChecker.check, lines 94-98 *)
CheckAll(d) ==
       PipAuditFindings(d.pip)
    \o (IF d.lock_exists THEN NpmAuditFindings(d.npm) ELSE <<>>)
    \o ReqFilesFindingsFrom(1, d.req_files)
    \o PkgFilesFindingsFrom(1, d.pkg_files)

(* check_dependencies.py main, lines 365-375 *)
DepsProcess(exists, a, d) ==
    IF ~exists THEN Run(None, 1, ErrorOutput)
    ELSE Run(None, DepsExitStatus(a.fail_on_findings, CheckAll(d)),
             PrintDepResults(CheckAll(d)))

(* detect_project.py main, lines 279-295: `return` after the error message *)
DetectProcess(exists, info) ==
    IF ~exists THEN Run(None, 0, ErrorOutput) ELSE Run(None, 0, info)

(* How subprocess.run ends: the child runs to its end, the timeout expires *)
(* (TimeoutExpired is raised), or the child is killed (a negative status)  *)
ProcEnds == {"exit", "TimeoutExpired", "killed"}

SubprocessRun(end, child) ==
    CASE end = "exit" -> child
      [] end = "TimeoutExpired" -> Run("TimeoutExpired", 0, NoOutput)
      [] end = "killed" -> Run(None, -9, NoOutput)

-----------------------------------------------------------------------------
(* generate_report.py: run_all_checks *)

(* {'error': str(e)} *)
ErrorResult(e) == [kind |-> "error", error |-> e]

(* One try block of run_all_checks (lines 28-36, 39-47, 50-58): the field  *)
(* stays None unless the child exits 0; json.loads raises on output that   *)
(* is not JSON                                                             *)
Collected(run) ==
    IF run.raised # None THEN ErrorResult(run.raised)
    ELSE IF run.returncode # 0 THEN NoneResult
    ELSE IF run.stdout.kind \in {"project", "results"} THEN run.stdout
    ELSE ErrorResult("JSONDecodeError")

(* dict.get(key, default) *)
Get(d, key, default) == IF key \in DOMAIN d THEN d[key] ELSE default

-----------------------------------------------------------------------------
(* generate_report.py: the report generators *)

Report(kind, raised, lines, rules, sarif_results) ==
    [kind |-> kind, raised |-> raised, lines |-> lines, rules |-> rules,
     results |-> sarif_results]

(* An exception that leaves the generator *)
Raised(e) == Report("raised", e, <<>>, <<>>, <<>>)

(* Mutant of Verdict: the test for high comes before the test for critical *)
VerdictHighFirst(critical, high, medium) ==
    IF high > 0 THEN "ACTION_REQUIRED"
    ELSE IF critical > 0 THEN "BLOCKED"
    ELSE IF medium > 0 THEN "REVIEW"
    ELSE "PASSED"

(* generate_markdown_report, lines 84-91: the line of the Executive Summary *)
Verdict(critical, high, medium) ==
    IF critical > 0 THEN "BLOCKED"
    ELSE IF high > 0 THEN "ACTION_REQUIRED"
    ELSE IF medium > 0 THEN "REVIEW"
    ELSE "PASSED"

(* lines 106-119: `if proj and 'error' not in proj` *)
ProjectSection(proj) ==
    IF proj.kind = "none" \/ "error" \in DOMAIN proj THEN <<>>
    ELSE <<"## Project Analysis">>
         \o (IF Get(proj, "ai_tool_indicators", <<>>) # <<>>
             THEN <<"AI Tools Detected">> ELSE <<>>)

(* lines 127-139: one heading per severity that has findings, then a block *)
(* per finding, headed by its rule id                                      *)
SeverityGroup(fs, severity) ==
    LET severity_findings == GetBySeverity(fs, severity)
    IN  IF severity_findings = <<>> THEN <<>>
        ELSE <<severity>>
             \o [k \in 1..Len(severity_findings) |-> severity_findings[k].rule_id]

(* lines 122-139 *)
SecuritySection(sec) ==
    LET fs == Get(sec, "findings", <<>>)
    IN  IF fs = <<>> THEN <<>>
        ELSE <<"## Security Findings">>
             \o SeverityGroup(fs, "CRITICAL") \o SeverityGroup(fs, "HIGH")
             \o SeverityGroup(fs, "MEDIUM") \o SeverityGroup(fs, "LOW")

(* line 147: the keys of the icon dict *)
DependencyIcons == {"CRITICAL", "HIGH", "MEDIUM"}

(* lines 142-153: a block per finding, headed by the package; the icon     *)
(* lookup raises KeyError on a severity that has no icon                   *)
DependencySection(dep) ==
    LET fs == Get(dep, "findings", <<>>)
    IN  IF fs = <<>> THEN [raised |-> None, lines |-> <<>>]
        ELSE IF \E k \in 1..Len(fs) : fs[k].severity \notin DependencyIcons
        THEN [raised |-> "KeyError", lines |-> <<>>]
        ELSE [raised |-> None,
              lines |-> <<"## Dependency Findings">>
                        \o [k \in 1..Len(fs) |-> fs[k].package]]

(* generate_markdown_report: the headings and verdict of the report, or    *)
(* the exception; None has no .get (lines 78 and 82)                       *)
GenerateMarkdownReport(res) ==
    LET sec == res.security_findings
        dep == res.dependency_findings
    IN  IF sec.kind = "none" THEN Raised("AttributeError")
        ELSE IF dep.kind = "none" THEN Raised("AttributeError")
        ELSE LET critical == Get(sec, "critical", 0)
                 high == Get(sec, "high", 0)
                 medium == Get(sec, "medium", 0)
                 dependencies == DependencySection(dep)
             IN  IF dependencies.raised # None THEN Raised(dependencies.raised)
                 ELSE Report("markdown", None,
                             <<"# Vibe Security Checker Report", "## Executive Summary",
                               Verdict(critical, high, medium), "### Finding Summary">>
                             \o ProjectSection(res.project_info)
                             \o SecuritySection(sec)
                             \o dependencies.lines
                             \o <<"## Recommendations">>
                             \o (IF critical > 0
                                 THEN <<"Fix all CRITICAL findings before deployment">>
                                 ELSE <<>>)
                             \o (IF high > 0
                                 THEN <<"Address HIGH severity issues in next sprint">>
                                 ELSE <<>>),
                             <<>>, <<>>)

(* lines 207 and 215 *)
SarifLevel(severity) == IF severity \in {"CRITICAL", "HIGH"} THEN "error" ELSE "warning"

(* lines 201-210: a rule is added the first time its id is seen *)
RECURSIVE SarifRules(_, _)
SarifRules(fs, rules_seen) ==
    IF fs = <<>> THEN <<>>
    ELSE IF Head(fs).rule_id \in rules_seen THEN SarifRules(Tail(fs), rules_seen)
    ELSE <<[id |-> Head(fs).rule_id, level |-> SarifLevel(Head(fs).severity)]>>
         \o SarifRules(Tail(fs), rules_seen \cup {Head(fs).rule_id})

(* generate_sarif_report: None has no .get (line 199) *)
GenerateSarifReport(res) ==
    LET sec == res.security_findings
    IN  IF sec.kind = "none" THEN Raised("AttributeError")
        ELSE LET fs == Get(sec, "findings", <<>>)
             IN  Report("sarif", None, <<>>, SarifRules(fs, {}),
                        [k \in 1..Len(fs) |->
                            [ruleId |-> fs[k].rule_id,
                             level |-> SarifLevel(fs[k].severity),
                             uri |-> fs[k].file_path,
                             startLine |-> fs[k].line_number]])

-----------------------------------------------------------------------------
(* generate_report.py: main *)

ReportArgs == [format : {"markdown", "json", "sarif"}, output : {None, "report.md"}]

(* The command lines of run_all_checks: --full --json, and --json *)
SubScanArgs == [check |-> {}, full |-> TRUE, severity |-> None, fail_on_findings |-> FALSE]

SubDepsArgs == [fail_on_findings |-> FALSE]

(* print("Running security analysis...") *)
RunningOutput == [kind |-> "running"]

(* print(f"Report saved to: {args.output}") *)
SavedOutput == [kind |-> "saved"]

(* The traceback of an exception nothing catches *)
TracebackOutput == [kind |-> "traceback"]

(* lines 236-241: the path test; `return` ends the process with status 0 *)
ReportMainStart ==
    /\ pc = "main"
    /\ IF ~pathExists
       THEN /\ output' = ErrorOutput
            /\ exitCode' = 0
            /\ pc' = "exited"
       ELSE /\ output' = RunningOutput
            /\ pc' = "run_detect"
            /\ UNCHANGED exitCode
    /\ UNCHANGED <<pathExists, args, scanState, depState, reportState>>

(* run_all_checks, lines 17-36 *)
RunDetect ==
    /\ pc = "run_detect"
    /\ results' = [NoResults EXCEPT !.project_info =
                       Collected(SubprocessRun(procs.proj,
                                               DetectProcess(pathExists, project)))]
    /\ pc' = "run_scan"
    /\ UNCHANGED <<pathExists, args, scanState, depState, output, exitCode,
                   project, procs, report>>

(* run_all_checks, lines 38-47 *)
RunScan ==
    /\ pc = "run_scan"
    /\ results' = [results EXCEPT !.security_findings =
                       Collected(SubprocessRun(procs.sec,
                                               ScanProcess(pathExists, SubScanArgs, tree, places)))]
    /\ pc' = "run_deps"
    /\ UNCHANGED <<pathExists, args, scanState, depState, output, exitCode,
                   project, procs, report>>

(* run_all_checks, lines 49-60 *)
RunDepCheck ==
    /\ pc = "run_deps"
    /\ results' = [results EXCEPT !.dependency_findings =
                       Collected(SubprocessRun(procs.dep,
                                               DepsProcess(pathExists, SubDepsArgs, deps)))]
    /\ pc' = "generate"
    /\ UNCHANGED <<pathExists, args, scanState, depState, output, exitCode,
                   project, procs, report>>

(* lines 243-254: the report in the format asked for, saved or printed; an *)
(* exception of the generator ends the process with status 1               *)
ReportMainGenerate ==
    /\ pc = "generate"
    /\ report' = CASE args.format = "markdown" -> GenerateMarkdownReport(results)
                   [] args.format = "sarif" -> GenerateSarifReport(results)
                   [] OTHER -> Report("json", None, <<>>, <<>>, <<>>)
    /\ IF report'.raised # None
       THEN /\ output' = TracebackOutput
            /\ exitCode' = 1
       ELSE /\ output' = IF args.output # None THEN SavedOutput ELSE report'
            /\ exitCode' = 0
    /\ pc' = "exited"
    /\ UNCHANGED <<pathExists, args, scanState, depState, project, procs, results>>

(* The targets of a report: a tree of at most MaxReportFiles files and one *)
(* of four dependency set-ups                                               *)
ReportTrees ==
    { t \in Trees : Len(t) <= MaxReportFiles }
    \cup { <<TextFile(<<"os.system(a); os.system(b)", "password = \"changeme\"">>)>> }

ReportTargets ==
    { NoDeps,
      [NoDeps EXCEPT !.req_files =
          <<ReqFile("txt", FALSE, TRUE,
                    <<"# comment", "huggingface-cli", "requests[security]>=2.0">>)>>],
      [NoDeps EXCEPT !.pkg_files =
          <<PkgFile(FALSE, TRUE, TRUE, Object(<<Dep("axios", "*")>>), Absent)>>],
      [NoDeps EXCEPT !.lock_exists = TRUE,
                     !.npm = Run(None, 1, Stdout(TRUE, "object",
                                 <<NpmVuln("got", "<11.8.5", "moderate", <<"Redirect">>)>>))] }

InitReport ==
    /\ pc = "main"
    /\ pathExists \in BOOLEAN
    /\ args \in ReportArgs
    /\ tree \in (IF pathExists THEN ReportTrees ELSE {<<>>})
    /\ places = RootPlaces(tree)
    /\ deps \in (IF pathExists THEN ReportTargets ELSE {NoDeps})
    /\ project \in (IF pathExists THEN ProjectInfos ELSE {NoneResult})
    /\ procs \in (IF pathExists THEN [proj : ProcEnds, sec : ProcEnds, dep : ProcEnds]
                  ELSE {NoProcs})
    /\ results = NoResults
    /\ report = NoReport
    /\ yielded = 0
    /\ findings = <<>>
    /\ files_scanned = 0
    /\ scanned = <<>>
    /\ previous = NoOutput
    /\ catalog = Shipped
    /\ depFindings = <<>>
    /\ output = NoOutput
    /\ exitCode = -1

NextReport == ReportMainStart \/ RunDetect \/ RunScan \/ RunDepCheck \/ ReportMainGenerate

SpecReport == InitReport /\ [][NextReport]_vars

-----------------------------------------------------------------------------
(* generate_markdown_report applied to any combination of severity counts *)

(* A findings list with the given number of findings of each severity *)
CountedFindings(critical, high, medium, low) ==
    [k \in 1..(critical + high + medium + low) |->
        IF k <= critical THEN Finding("SEC-011", "CRITICAL", "Secrets", "a.py", k, "")
        ELSE IF k <= critical + high
        THEN Finding("AUTH-001", "HIGH", "Authentication", "a.py", k, "")
        ELSE IF k <= critical + high + medium
        THEN Finding("SEC-012", "MEDIUM", "Secrets", "a.py", k, "")
        ELSE Finding("SEC-012", "LOW", "Secrets", "a.py", k, "")]

CountedResults ==
    { PrintResults(CountedFindings(c, h, m, l), 1) :
        c \in 0..MaxCount, h \in 0..MaxCount, m \in 0..MaxCount, l \in 0..MaxCount }

InitVerdict ==
    /\ pc = "generate"
    /\ pathExists = TRUE
    /\ args = [format |-> "markdown", output |-> None]
    /\ tree = <<>>
    /\ places = <<>>
    /\ deps = NoDeps
    /\ project = NoneResult
    /\ procs = NoProcs
    /\ results \in [project_info : {NoneResult},
                    security_findings : CountedResults \cup {ErrorResult("TimeoutExpired")},
                    dependency_findings : {PrintDepResults(CheckAll(d)) : d \in ReportTargets}]
    /\ report = NoReport
    /\ yielded = 0
    /\ findings = <<>>
    /\ files_scanned = 0
    /\ scanned = <<>>
    /\ previous = NoOutput
    /\ catalog = Shipped
    /\ depFindings = <<>>
    /\ output = RunningOutput
    /\ exitCode = -1

NextVerdict == ReportMainGenerate

SpecVerdict == InitVerdict /\ [][NextVerdict]_vars

-----------------------------------------------------------------------------
(* Properties of the scanner *)

Range(seq) == { seq[i] : i \in 1..Len(seq) }

(* The severities at or above a threshold, CRITICAL > HIGH > MEDIUM > LOW *)
AtOrAbove(threshold) ==
    CASE threshold = "CRITICAL" -> {"CRITICAL"}
      [] threshold = "HIGH" -> {"CRITICAL", "HIGH"}
      [] threshold = "MEDIUM" -> {"CRITICAL", "HIGH", "MEDIUM"}
      [] threshold = "LOW" -> {"CRITICAL", "HIGH", "MEDIUM", "LOW"}

(* The positions of fs whose finding is reported under the --severity given *)
KeptPositions(fs, severity_arg) ==
    { i \in 1..Len(fs) :
        severity_arg = None \/ fs[i].severity \in AtOrAbove(SeverityByName(severity_arg)) }

(* out is fs restricted to the positions K, in the order of fs *)
IsSelection(out, fs, K) ==
    /\ Len(out) = Cardinality(K)
    /\ \A j \in 1..Len(out) :
          \E i \in K : /\ Cardinality({ k \in K : k <= i }) = j
                       /\ out[j] = fs[i]

(* The check name that selects the rule set of a rule *)
RuleCheckName(rule_id) ==
    CASE rule_id \in Range(SECRETS_PATTERNS) -> "secrets"
      [] rule_id \in Range(AUTH_PATTERNS) -> "auth"
      [] rule_id \in Range(CRYPTO_PATTERNS) -> "crypto"
      [] rule_id \in Range(CLOUD_PATTERNS) -> "cloud"
      [] rule_id \in Range(DATA_PATTERNS) -> "data"
      [] OTHER -> "injection"

(* The rules applied under a selection that match some line of the text *)
MatchingRules(lines, checks) ==
    { r \in UNION { LineMatches(lines[i]) : i \in 1..Len(lines) } :
        checks = {} \/ RuleCheckName(r) \in checks }

FindingsOfFile(fs, i) == SelectSeq(fs, LAMBDA f : f.file_path = PathNames[i])

(* C4: for an existing target path the scanner exits non-zero if and only  *)
(* if --fail-on-findings is set and at least one finding of the scan is at *)
(* or above the --severity threshold; otherwise it exits zero, also when   *)
(* findings were found.                                                    *)
C4_ExitStatus ==
    (pc = "exited" /\ pathExists) =>
        /\ exitCode \in {0, 1}
        /\ exitCode # 0 <=>
              (args.fail_on_findings /\ KeptPositions(scanned, args.severity) # {})

(* C4 witness: the flag is set and findings were found, all of them below  *)
(* the threshold: the process has exited zero.                             *)
C4_Witness ==
    /\ pc = "exited" /\ pathExists
    /\ args.fail_on_findings
    /\ scanned # <<>>
    /\ args.severity = "critical"
    /\ exitCode = 0

(* C8 as claimed: a candidate file that cannot be read, or whose bytes     *)
(* cannot be decoded, contributes zero findings.                           *)
C8_UndecodableAddsNothing ==
    \A i \in 1..Len(tree) :
        (~tree[i].readable \/ tree[i].invalid_bytes) => FindingsOfFile(findings, i) = <<>>

(* C8 amended: a file that cannot be read contributes zero findings; a     *)
(* file holding undecodable bytes contributes zero findings when the text  *)
(* left after dropping them matches no applied rule; each such file is     *)
(* counted in files_scanned, and every later file is still scanned: when   *)
(* the scan has returned, a readable file with a matching line has its     *)
(* findings in the result, and the process ends by printing its results.   *)
(* A tree whose only file is unreadable ends with files_scanned = 1 and no *)
(* finding.                                                                *)
C8_UnreadableAddsNothing ==
    /\ \A i \in 1..Len(tree) :
          ~tree[i].readable => FindingsOfFile(findings, i) = <<>>
    /\ \A i \in 1..Len(tree) :
          (tree[i].invalid_bytes /\ MatchingRules(tree[i].lines, Checks(args)) = {})
              => FindingsOfFile(findings, i) = <<>>
    /\ pc = "filter" =>
          /\ files_scanned = Len(tree)
          /\ \A i \in 1..Len(tree) :
                (tree[i].readable /\ MatchingRules(tree[i].lines, Checks(args)) # {})
                    => FindingsOfFile(findings, i) # <<>>
    /\ (pc = "filter" /\ Len(tree) = 1 /\ ~tree[1].readable) =>
          (files_scanned = 1 /\ findings = <<>>)
    /\ (pc = "exited" /\ pathExists) =>
          (output.kind = "results" /\ output.files_scanned = Len(tree))

(* C8 witness: the scan has returned from a tree whose first file is       *)
(* unreadable and whose second file has findings.                          *)
C8_Witness ==
    /\ pc = "filter"
    /\ Len(tree) = 2
    /\ ~tree[1].readable
    /\ FindingsOfFile(findings, 1) = <<>>
    /\ FindingsOfFile(findings, 2) # <<>>
    /\ files_scanned = 2

(* C9: every candidate file increments files_scanned exactly once: a file  *)
(* is counted when the generator resumes after it, so the counter is the   *)
(* number of files yielded, less the one being scanned, and when scan()    *)
(* returns it equals the number of candidate files; a file with zero rule  *)
(* matches adds no Finding.                                                *)
C9_FilesScanned ==
    /\ pc = "scan_file" => files_scanned = yielded - 1
    /\ pc = "scan" => files_scanned \in {yielded - 1, yielded}
    /\ pc = "filter" => files_scanned = Len(tree)
    /\ (pc = "exited" /\ pathExists) => output.files_scanned = Len(tree)
    /\ \A i \in 1..Len(tree) :
          (\A k \in 1..Len(tree[i].lines) : LineMatches(tree[i].lines[k]) = {})
              => FindingsOfFile(findings, i) = <<>>

(* C9 witness: scan() has returned from two files, one matching no rule    *)
(* and one with findings.                                                  *)
C9_Witness ==
    /\ pc = "filter"
    /\ files_scanned = 2
    /\ tree[1] = TextFile(<<"">>)
    /\ FindingsOfFile(findings, 2) # <<>>

(* C10: the minimum-severity filter returns exactly the findings at or     *)
(* above the threshold, in their original relative order, and is monotone: *)
(* what is kept at HIGH is kept at MEDIUM, and what is kept at MEDIUM is   *)
(* kept at LOW, which keeps every finding.                                 *)
C10_SeverityFilter ==
    pc = "exited" =>
        /\ IsSelection(findings, scanned, KeptPositions(scanned, args.severity))
        /\ \A i \in 1..Len(scanned) :
              /\ (scanned[i] \in Range(FilterBySeverity(scanned, "HIGH")))
                    => (scanned[i] \in Range(FilterBySeverity(scanned, "MEDIUM")))
              /\ (scanned[i] \in Range(FilterBySeverity(scanned, "MEDIUM")))
                    => (scanned[i] \in Range(FilterBySeverity(scanned, "LOW")))
        /\ IsSelection(FilterBySeverity(scanned, "HIGH"), scanned,
                       KeptPositions(scanned, "high"))
        /\ IsSelection(FilterBySeverity(scanned, "MEDIUM"), scanned,
                       KeptPositions(scanned, "medium"))
        /\ FilterBySeverity(scanned, "LOW") = scanned

(* C10 witness: the threshold high has dropped a MEDIUM finding that stood *)
(* between two findings it kept.                                           *)
C10_Witness ==
    /\ pc = "exited"
    /\ args.severity = "high"
    /\ Len(scanned) = 3
    /\ scanned[2].severity = "MEDIUM"
    /\ findings = <<scanned[1], scanned[3]>>
    /\ scanned[1] # scanned[3]

(* The number of findings of a list with a severity *)
Tally(fs, severity) == Cardinality({ i \in 1..Len(fs) : fs[i].severity = severity })

(* C19: in the JSON output of the scanner each of critical, high, medium   *)
(* and low is the number of findings of that severity in the findings list *)
(* printed, their sum is total_findings, also when --severity removed      *)
(* findings, and has_critical() holds exactly when critical is above zero. *)
C19_SeverityTally ==
    (pc = "exited" /\ output.kind = "results") =>
        /\ output.findings = findings
        /\ output.critical = Tally(output.findings, "CRITICAL")
        /\ output.high = Tally(output.findings, "HIGH")
        /\ output.medium = Tally(output.findings, "MEDIUM")
        /\ output.low = Tally(output.findings, "LOW")
        /\ output.total_findings = Len(output.findings)
        /\ output.critical + output.high + output.medium + output.low
              = output.total_findings
        /\ HasCritical(findings) <=> output.critical > 0
        /\ HasCritical(findings) <=> (\E i \in 1..Len(findings) :
                                         findings[i].severity = "CRITICAL")

(* --severity medium removed a LOW finding and the output counts the two   *)
(* findings that are left                                                  *)
C19_Witness ==
    /\ pc = "exited"
    /\ args.severity = "medium"
    /\ Len(scanned) = 3
    /\ output.total_findings = 2
    /\ output.critical = 1 /\ output.high = 0 /\ output.medium = 1 /\ output.low = 0

-----------------------------------------------------------------------------
(* Properties of the dependency checker *)

FindingsAt(fs, file_path) == SelectSeq(fs, LAMBDA f : f.file_path = file_path)

ManifestFindings(fs) == SelectSeq(fs, LAMBDA f : f.file_path.dir > 0)

(* An audit run that timed out, was unavailable, exited non-zero or        *)
(* printed something that is not JSON                                      *)
AuditFailed(run) ==
    run.raised # None \/ run.returncode # 0 \/ ~run.stdout.json

PythonDepsDone ==
    pathExists /\ pc \in {"npm_deps", "requirements", "package_json", "report", "exited"}

NpmDepsDone ==
    pathExists /\ pc \in {"requirements", "package_json", "report", "exited"}

CheckDone == pathExists /\ pc \in {"report", "exited"}

(* C6 as claimed: an audit subprocess that times out, is unavailable,      *)
(* exits non-zero or prints non-JSON output contributes zero findings from *)
(* that source.                                                            *)
C6_FailedAuditAddsNothing ==
    /\ (PythonDepsDone /\ AuditFailed(deps.pip))
          => FindingsAt(depFindings, RelPath(0, "(installed)")) = <<>>
    /\ (NpmDepsDone /\ deps.lock_exists /\ AuditFailed(deps.npm))
          => FindingsAt(depFindings, RelPath(0, "package-lock.json")) = <<>>

(* C6 amended: pip-audit that times out, is unavailable, exits non-zero or *)
(* prints non-JSON output, and npm audit that times out, is unavailable or *)
(* prints non-JSON output, contribute zero findings from that source; the  *)
(* exit status of npm audit is not consulted, so its JSON output yields    *)
(* findings whatever the status. Neither aborts check: the manifest checks *)
(* still run, the findings appended before stay, and main prints the       *)
(* results.                                                                *)
C6_AuditDegrades ==
    /\ (PythonDepsDone /\ AuditFailed(deps.pip))
          => FindingsAt(depFindings, RelPath(0, "(installed)")) = <<>>
    /\ (NpmDepsDone /\ deps.lock_exists /\ (deps.npm.raised # None \/ ~deps.npm.stdout.json))
          => FindingsAt(depFindings, RelPath(0, "package-lock.json")) = <<>>
    /\ (NpmDepsDone /\ deps.lock_exists /\ deps.npm.raised = None /\ deps.npm.stdout.json
          /\ deps.npm.stdout.items # <<>> /\ deps.npm.stdout.items[1].via # <<>>)
          => FindingsAt(depFindings, RelPath(0, "package-lock.json")) # <<>>
    /\ NpmDepsDone
          => FindingsAt(depFindings, RelPath(0, "(installed)")) = PipAuditFindings(deps.pip)
    /\ CheckDone
          => ManifestFindings(depFindings) =
                ReqFilesFindingsFrom(1, deps.req_files) \o PkgFilesFindingsFrom(1, deps.pkg_files)
    /\ (pathExists /\ pc = "exited") => output = PrintDepResults(depFindings)

(* C6 witness: pip-audit timed out and npm audit printed no JSON; check    *)
(* has returned with the findings of the manifests alone.                  *)
C6_Witness ==
    /\ pc = "exited"
    /\ deps.pip.raised = "TimeoutExpired"
    /\ deps.lock_exists /\ deps.npm.raised = None /\ ~deps.npm.stdout.json
    /\ depFindings # <<>>
    /\ ManifestFindings(depFindings) = depFindings
    /\ output.total_findings = Len(depFindings)

(* A package.json whose processing fails: it cannot be read, is not JSON,  *)
(* or has a dependencies/devDependencies section that is not an object     *)
PkgFileFails(file) ==
    \/ ~file.readable
    \/ ~file.json
    \/ file.dependencies.shape = "array"
    \/ file.devDependencies.shape = "array"

(* C7: a manifest whose processing fails contributes zero dependency       *)
(* findings: once the manifests are processed, the findings list holds no  *)
(* finding of a requirements file that could not be read, nor of a         *)
(* package.json that could not be read or parsed or that has a section of  *)
(* an unexpected shape.                                                    *)
C7_FailedManifestAddsNothing ==
    CheckDone =>
        /\ \A i \in 1..Len(deps.req_files) :
              ~deps.req_files[i].readable
                  => FindingsAt(depFindings,
                                RelPath(i, ReqFileName(deps.req_files[i]))) = <<>>
        /\ \A i \in 1..Len(deps.pkg_files) :
              (~deps.pkg_files[i].excluded /\ PkgFileFails(deps.pkg_files[i]))
                  => FindingsAt(depFindings, RelPath(i, "package.json")) = <<>>

(* The name a requirement declares: its leading letters, digits, dots,     *)
(* underscores and hyphens                                                  *)
DeclaredName(entry) ==
    LET text == Strip(entry)
    IN  SubSeq(text, 1, RunLength(text, 1, NameChars \cup {"."}))

(* The lower-cased names a Python manifest declares: those of the lines of *)
(* a requirements file that are not blank, comments or options, and those  *)
(* of the entries of the dependencies array of a pyproject.toml            *)
DeclaredNames(file) ==
    { Lower(DeclaredName(file.lines[k])) :
        k \in { j \in 1..Len(file.lines) :
                  file.kind = "toml" \/ ~IsSkippedLine(Strip(file.lines[j])) } }

(* The entries a package.json declares, those of dependencies first *)
DeclaredDeps(file) == file.dependencies.items \o file.devDependencies.items

Hallucinated(fs) == SelectSeq(fs, LAMBDA f : f.issue_type = "hallucinated")

OfPackage(fs, name) == SelectSeq(fs, LAMBDA f : Lower(f.package) = name)

(* C15: hallucinated-package detection goes by the name alone: once the    *)
(* manifests are checked, every name declared in a manifest that was read  *)
(* and parsed has exactly one CRITICAL hallucinated finding per entry      *)
(* declaring it when its lower-cased form is in the denylist of its        *)
(* ecosystem, whatever version the entry gives, and none when it is not.   *)
C15_HallucinatedByName ==
    CheckDone =>
        /\ \A i \in 1..Len(deps.req_files) :
              LET file == deps.req_files[i]
                  own == Hallucinated(FindingsAt(depFindings,
                                                 RelPath(i, ReqFileName(file))))
              IN  (~file.excluded /\ file.readable) =>
                     /\ \A name \in DeclaredNames(file) :
                           Len(OfPackage(own, name)) =
                              (IF name \in HALLUCINATED_PACKAGES("python") THEN 1 ELSE 0)
                     /\ \A k \in 1..Len(own) :
                           /\ own[k].severity = "CRITICAL"
                           /\ Lower(own[k].package) \in DeclaredNames(file)
        /\ \A i \in 1..Len(deps.pkg_files) :
              LET file == deps.pkg_files[i]
                  own == Hallucinated(FindingsAt(depFindings, RelPath(i, "package.json")))
                  declared == DeclaredDeps(file)
              IN  (~file.excluded /\ ~PkgFileFails(file)) =>
                     /\ \A k \in 1..Len(declared) :
                           LET name == Lower(declared[k].pkg)
                           IN  Len(OfPackage(own, name)) =
                                  (IF name \in HALLUCINATED_PACKAGES("npm")
                                   THEN Cardinality({ j \in 1..Len(declared) :
                                                        Lower(declared[j].pkg) = name })
                                   ELSE 0)
                     /\ \A k \in 1..Len(own) :
                           /\ own[k].severity = "CRITICAL"
                           /\ \E j \in 1..Len(declared) :
                                 Lower(declared[j].pkg) = Lower(own[k].package)

Vulnerable(fs) == SelectSeq(fs, LAMBDA f : f.issue_type = "vulnerable")

(* The advisory entries catalogued for a name, none when it is not in the  *)
(* table                                                                    *)
Advisories(ecosystem, name) ==
    IF name \in DOMAIN VULNERABLE_PACKAGES(ecosystem)
    THEN VULNERABLE_PACKAGES(ecosystem)[name] ELSE <<>>

(* fs holds one HIGH vulnerable finding per advisory entry, in table order, *)
(* each naming the range of its entry                                       *)
OnePerAdvisory(fs, entries) ==
    /\ Len(fs) = Len(entries)
    /\ \A k \in 1..Len(fs) :
          /\ fs[k].severity = "HIGH"
          /\ fs[k].description[2] = entries[k].range
          /\ fs[k].description[3] = entries[k].info

Suspicious(fs) == SelectSeq(fs, LAMBDA f : f.issue_type = "suspicious")

(* The findings of fs for a declared entry: its name as written and its    *)
(* version                                                                  *)
OfEntry(fs, dep) ==
    SelectSeq(fs, LAMBDA f : f.package = dep.pkg /\ f.version = dep.version)

(* C17: once the manifests are checked, every entry of a package.json that *)
(* was read and parsed has exactly one MEDIUM suspicious finding when its  *)
(* version is the empty string, `*` or `latest`, and none otherwise, next  *)
(* to the hallucinated and vulnerable findings of its package; the entry   *)
(* "axios": "*" has exactly two findings, one HIGH vulnerable and one      *)
(* MEDIUM suspicious; and no finding of a requirements file or of a        *)
(* pyproject.toml is suspicious.                                           *)
C17_SuspiciousVersions ==
    CheckDone =>
        /\ \A i \in 1..Len(deps.pkg_files) :
              LET file == deps.pkg_files[i]
                  own == FindingsAt(depFindings, RelPath(i, "package.json"))
                  declared == DeclaredDeps(file)
              IN  (~file.excluded /\ ~PkgFileFails(file)) =>
                     \A k \in 1..Len(declared) :
                        LET of_entry == OfEntry(own, declared[k])
                        IN  /\ Len(Suspicious(of_entry)) =
                                  (IF declared[k].version \in {"", "*", "latest"}
                                   THEN 1 ELSE 0)
                            /\ \A j \in 1..Len(of_entry) :
                                  of_entry[j].issue_type = "suspicious"
                                      => of_entry[j].severity = "MEDIUM"
                            /\ Len(Hallucinated(of_entry)) =
                                  (IF Lower(declared[k].pkg) \in HALLUCINATED_PACKAGES("npm")
                                   THEN 1 ELSE 0)
                            /\ Len(Vulnerable(of_entry)) =
                                  Len(Advisories("npm", Lower(declared[k].pkg)))
                            /\ declared[k] = Dep("axios", "*") =>
                                  /\ Len(of_entry) = 2
                                  /\ \E j \in 1..2 : /\ of_entry[j].issue_type = "vulnerable"
                                                     /\ of_entry[j].severity = "HIGH"
                                  /\ \E j \in 1..2 : /\ of_entry[j].issue_type = "suspicious"
                                                     /\ of_entry[j].severity = "MEDIUM"
        /\ \A i \in 1..Len(deps.req_files) :
              Suspicious(FindingsAt(depFindings,
                                    RelPath(i, ReqFileName(deps.req_files[i])))) = <<>>

(* The checker has reported "axios": "*" twice, and in another file an     *)
(* entry pinned to "latest" as hallucinated and suspicious and one with an *)
(* empty version as vulnerable and suspicious                              *)
C17_Witness ==
    /\ pc = "exited"
    /\ Len(deps.pkg_files) = 2
    /\ deps.pkg_files[1].dependencies.items = <<Dep("axios", "*")>>
    /\ Len(FindingsAt(depFindings, RelPath(1, "package.json"))) = 2
    /\ \E k \in 1..Len(depFindings) :
          /\ depFindings[k].file_path = RelPath(2, "package.json")
          /\ depFindings[k].issue_type = "suspicious"
          /\ depFindings[k].version = "latest"
    /\ \E k \in 1..Len(depFindings) :
          /\ depFindings[k].file_path = RelPath(2, "package.json")
          /\ depFindings[k].issue_type = "suspicious"
          /\ depFindings[k].version = ""

-----------------------------------------------------------------------------
(* Properties of the report generator *)

Verdicts == {"BLOCKED", "ACTION_REQUIRED", "REVIEW", "PASSED"}

(* The verdict lines of a generated report, in order *)
VerdictLines(r) == SelectSeq(r.lines, LAMBDA l : l \in Verdicts)

(* A collected result lists a finding of severity CRITICAL *)
ListsCritical(r) ==
    \E k \in 1..Len(Get(r, "findings", <<>>)) : r.findings[k].severity = "CRITICAL"

(* C1: a CRITICAL finding in either collection, the security findings or   *)
(* the dependency findings (such as a hallucinated package), makes the     *)
(* verdict of the markdown report BLOCKED, whatever else was found.        *)
C1_CriticalBlocks ==
    (pc = "exited" /\ report.kind = "markdown"
       /\ (ListsCritical(results.security_findings)
           \/ ListsCritical(results.dependency_findings)))
    => VerdictLines(report) = <<"BLOCKED">>

(* C2: for every combination of severity counts a markdown report carries  *)
(* exactly one verdict, chosen by the fixed precedence: BLOCKED if         *)
(* critical > 0, else ACTION_REQUIRED if high > 0, else REVIEW if          *)
(* medium > 0, else PASSED (so no finding at all gives PASSED).            *)
C2_VerdictPrecedence ==
    (pc = "exited" /\ report.kind = "markdown") =>
        LET sec == results.security_findings
            critical == Get(sec, "critical", 0)
            high == Get(sec, "high", 0)
            medium == Get(sec, "medium", 0)
            emitted == VerdictLines(report)
        IN  /\ Len(emitted) = 1
            /\ critical > 0 => emitted[1] = "BLOCKED"
            /\ (critical = 0 /\ high > 0) => emitted[1] = "ACTION_REQUIRED"
            /\ (critical = 0 /\ high = 0 /\ medium > 0) => emitted[1] = "REVIEW"
            /\ (critical = 0 /\ high = 0 /\ medium = 0) => emitted[1] = "PASSED"

(* C2 witness: a report on critical, high and medium findings together is  *)
(* BLOCKED.                                                                 *)
C2_Witness ==
    /\ pc = "exited"
    /\ report.kind = "markdown"
    /\ Get(results.security_findings, "critical", 0) > 0
    /\ Get(results.security_findings, "high", 0) > 0
    /\ Get(results.security_findings, "medium", 0) > 0
    /\ VerdictLines(report) = <<"BLOCKED">>

(* A collected result is a valid one: neither None nor an error record *)
IsValid(r) == r.kind \in {"project", "results"}

(* C3: whichever of project_info, security_findings and                    *)
(* dependency_findings are valid, error records or None, the markdown and  *)
(* the SARIF generator return a report without raising, and the markdown   *)
(* report has the sections of the valid inputs.                            *)
C3_SynthesisNeverFails ==
    (pc = "exited" /\ pathExists /\ args.format \in {"markdown", "sarif"}) =>
        /\ report.raised = None
        /\ report.kind = args.format
        /\ (args.format = "markdown" /\ IsValid(results.project_info))
              => "## Project Analysis" \in Range(report.lines)
        /\ (args.format = "markdown" /\ IsValid(results.security_findings)
              /\ results.security_findings.findings # <<>>)
              => "## Security Findings" \in Range(report.lines)
        /\ (args.format = "markdown" /\ IsValid(results.dependency_findings)
              /\ results.dependency_findings.findings # <<>>)
              => "## Dependency Findings" \in Range(report.lines)

(* C5: when the target path does not exist the entry point reports the     *)
(* error, runs no check and exits with a non-zero status.                  *)
C5_MissingPathFails ==
    (pc = "exited" /\ ~pathExists) =>
        /\ output = ErrorOutput
        /\ results = NoResults
        /\ report = NoReport
        /\ exitCode # 0 /\ exitCode # -1

-----------------------------------------------------------------------------
(* Properties of the scanner on walked targets *)

(* The path a finding of the file at walk position i carries *)
WalkPath(i) == RelativePath(places[i].dirs, places[i].name)

FindingsAtPath(fs, path) == SelectSeq(fs, LAMBDA f : f.file_path = path)

FindingsOfRule(fs, rule_id) == SelectSeq(fs, LAMBDA f : f.rule_id = rule_id)

(* The walk positions whose file _scan_file has returned from *)
DoneFiles ==
    { Candidates(places)[k] :
        k \in 1..(IF pc = "scan_file" THEN yielded - 1 ELSE yielded) }

RuleIds ==
    Range(SECRETS_PATTERNS) \cup Range(AUTH_PATTERNS) \cup Range(CRYPTO_PATTERNS)
    \cup Range(CLOUD_PATTERNS) \cup Range(DATA_PATTERNS)
    \cup UNION { Range(INJECTION_PATTERNS[k].patterns) :
                   k \in 1..Len(INJECTION_PATTERNS) }

(* The rules the selection of this run applies *)
AppliedRules ==
    { r \in RuleIds : Checks(args) = {} \/ RuleCheckName(r) \in Checks(args) }

(* The line in which each match of a rule starts, in text order: a match   *)
(* starting in line i has the i - 1 newline characters of the lines above  *)
(* before it                                                                *)
RECURSIVE MatchLinesFrom(_, _, _)
MatchLinesFrom(rule_id, lines, i) ==
    IF i > Len(lines) THEN <<>>
    ELSE LET n == Len(MatchColumns(rule_id, lines[i]))
                  + (IF i < Len(lines)
                     THEN Len(SpanColumns(rule_id, lines[i], lines[i + 1]))
                     ELSE 0)
         IN  [k \in 1..n |-> i] \o MatchLinesFrom(rule_id, lines, i + 1)

(* C11: for every match of every rule applied to a scanned file the        *)
(* finding's line_number is the number of newline characters before the    *)
(* start of the match plus one, that is the line the match starts in; it   *)
(* is at least 1, at most the number of lines of the file, and 1 for a     *)
(* match that starts in the first line.                                    *)
C11_LineNumbers ==
    \A i \in DoneFiles :
        LET lines == tree[i].lines
            own == FindingsAtPath(findings, WalkPath(i))
        IN  /\ \A k \in 1..Len(own) :
                  own[k].line_number >= 1 /\ own[k].line_number <= Len(lines)
            /\ \A r \in AppliedRules :
                  LET found == FindingsOfRule(own, r)
                      expected == MatchLinesFrom(r, lines, 1)
                  IN  /\ [k \in 1..Len(found) |-> found[k].line_number] = expected
                      /\ (MatchColumns(r, lines[1]) # <<>>) =>
                            (found # <<>> /\ found[1].line_number = 1)

(* A scan that found a match in the third line of a file, one in its first *)
(* line that runs over the line break, and two matches in one line         *)
C11_Witness ==
    /\ pc = "exited"
    /\ \E k \in 1..Len(findings) :
          /\ findings[k].file_path = ".env.local"
          /\ findings[k].rule_id = "INJ-010"
          /\ findings[k].line_number = 3
    /\ \E k \in 1..Len(findings) :
          /\ findings[k].file_path = ".env.local"
          /\ findings[k].rule_id = "SEC-012"
          /\ findings[k].line_number = 1

(* text occurs in line starting at its character number from *)
OccursAt(text, line, from) ==
    /\ from >= 1
    /\ from + Len(text) - 1 <= Len(line)
    /\ SubSeq(line, from, from + Len(text) - 1) = text

IsWhitespace(text, i) == SubSeq(text, i, i) \in Whitespace

(* snippet is line without its leading and trailing whitespace, cut after  *)
(* limit characters                                                        *)
IsTrimmedAndCut(snippet, line, limit) ==
    LET inked == { i \in 1..Len(line) : ~IsWhitespace(line, i) }
    IN  IF inked = {} THEN snippet = ""
        ELSE \E first \in inked, last \in inked :
                /\ \A i \in inked : first <= i /\ i <= last
                /\ OccursAt(snippet, line, first)
                /\ Len(snippet) = (IF last - first + 1 < limit
                                   THEN last - first + 1 ELSE limit)

(* C12: the snippet of every finding is the line its match starts in (the  *)
(* line numbered line_number) without leading and trailing whitespace and  *)
(* cut to its first 100 characters; no snippet is longer than 100          *)
(* characters; and a scanned file with a line made of                      *)
(* password = "changeme" has a CRITICAL Secrets finding with that snippet  *)
(* when the secrets rules are applied.                                     *)
C12_Snippet ==
    \A i \in DoneFiles :
        LET lines == tree[i].lines
            own == FindingsAtPath(findings, WalkPath(i))
        IN  /\ \A k \in 1..Len(own) :
                  /\ Len(own[k].code_snippet) <= 100
                  /\ own[k].line_number \in 1..Len(lines)
                  /\ IsTrimmedAndCut(own[k].code_snippet,
                                     lines[own[k].line_number], 100)
            /\ \A n \in 1..Len(lines) :
                  ( /\ Strip(lines[n]) = "password = \"changeme\""
                    /\ Applies(Checks(args), "secrets") ) =>
                      \E k \in 1..Len(own) :
                          /\ own[k].severity = "CRITICAL"
                          /\ own[k].category = "Secrets"
                          /\ own[k].line_number = n
                          /\ own[k].code_snippet = "password = \"changeme\""

(* A scan that cut the snippet of a long line to 100 characters, trimmed   *)
(* the one of an indented line, and reported the password assignment       *)
C12_Witness ==
    /\ pc = "exited"
    /\ \E k \in 1..Len(findings) :
          /\ findings[k].file_path = "src/App.JS"
          /\ findings[k].line_number = 2
          /\ Len(findings[k].code_snippet) = 100
    /\ \E k \in 1..Len(findings) :
          /\ findings[k].file_path = "a.py"
          /\ findings[k].severity = "CRITICAL"
          /\ findings[k].category = "Secrets"
          /\ findings[k].code_snippet = "password = \"changeme\""

(* The check name under which each category of finding is produced *)
CategoryCheckName(category) ==
    CASE category = "Secrets" -> "secrets"
      [] category = "Authentication" -> "auth"
      [] category = "Cryptography" -> "crypto"
      [] category = "Cloud/Infrastructure" -> "cloud"
      [] category = "Data Handling" -> "data"
      [] category \in {"Injection (sql)", "Injection (command)",
                       "Injection (xss)", "Injection (nosql)"} -> "injection"
      [] OTHER -> "none"

(* The rules of a selection of check names *)
RulesOf(names) == { r \in RuleIds : RuleCheckName(r) \in names }

SixChecks == {"secrets", "injection", "auth", "crypto", "cloud", "data"}

(* The rules with a finding for the file at walk position i *)
RulesFound(i) ==
    { f.rule_id : f \in Range(FindingsAtPath(findings, WalkPath(i))) }

(* The rules that match somewhere in the file at walk position i *)
RulesMatching(i) ==
    { r \in RuleIds : MatchLinesFrom(r, tree[i].lines, 1) # <<>> }

(* C13: with a non-empty --check selection and no --full, findings come    *)
(* only from the rule sets whose check name is selected, and every match   *)
(* of a selected rule set is found; with no selection, or with --full      *)
(* whatever --check says, the rules of all six check names are applied;    *)
(* selecting injection applies the sql, command, xss and nosql rules alike.*)
C13_CategorySelection ==
    \A i \in DoneFiles :
        /\ \A f \in Range(FindingsAtPath(findings, WalkPath(i))) :
              CategoryCheckName(f.category) = RuleCheckName(f.rule_id)
        /\ IF args.full \/ args.check = {}
           THEN RulesFound(i) = RulesMatching(i) \cap RulesOf(SixChecks)
           ELSE /\ RulesFound(i) = RulesMatching(i) \cap RulesOf(args.check)
                /\ \A f \in Range(FindingsAtPath(findings, WalkPath(i))) :
                      CategoryCheckName(f.category) \in args.check
        /\ (~args.full /\ "injection" \in args.check) =>
              \A k \in 1..Len(INJECTION_PATTERNS) :
                  Range(INJECTION_PATTERNS[k].patterns) \cap RulesMatching(i)
                      \subseteq RulesFound(i)

(* Categories of the findings of a finished scan *)
CategoriesFound == { f.category : f \in Range(findings) }

(* A scan with --check injection alone that reported all four kinds of     *)
(* injection and nothing else from a file matching rules of five rule sets *)
C13_Witness ==
    /\ pc = "exited"
    /\ ~args.full
    /\ args.check = {"injection"}
    /\ \E i \in DoneFiles : RulesMatching(i) \ RulesOf({"injection"}) # {}
    /\ CategoriesFound = {"Injection (sql)", "Injection (command)",
                          "Injection (xss)", "Injection (nosql)"}

(* The severity the claim gives each category of finding *)
CategorySeverity(category) ==
    CASE category \in {"Injection (sql)", "Injection (command)", "Secrets"} -> "CRITICAL"
      [] category \in {"Injection (xss)", "Injection (nosql)", "Authentication",
                       "Cryptography", "Cloud/Infrastructure", "Data Handling"} -> "HIGH"
      [] OTHER -> "none"

(* The category of the rule set that holds a rule *)
RuleCategory(rule_id) ==
    CASE rule_id \in Range(SECRETS_PATTERNS) -> "Secrets"
      [] rule_id \in Range(AUTH_PATTERNS) -> "Authentication"
      [] rule_id \in Range(CRYPTO_PATTERNS) -> "Cryptography"
      [] rule_id \in Range(CLOUD_PATTERNS) -> "Cloud/Infrastructure"
      [] rule_id \in Range(DATA_PATTERNS) -> "Data Handling"
      [] OTHER ->
           LET k == CHOOSE k \in 1..Len(INJECTION_PATTERNS) :
                        rule_id \in Range(INJECTION_PATTERNS[k].patterns)
           IN  "Injection (" \o INJECTION_PATTERNS[k].category \o ")"

(* C14: the severity of a finding is fixed by the rule set of its rule:    *)
(* Injection (sql), Injection (command) and Secrets findings are CRITICAL; *)
(* Injection (xss), Injection (nosql), Authentication, Cryptography,       *)
(* Cloud/Infrastructure and Data Handling findings are HIGH.               *)
C14_SeverityByRuleSet ==
    \A k \in 1..Len(findings) :
        /\ findings[k].category = RuleCategory(findings[k].rule_id)
        /\ findings[k].severity = CategorySeverity(findings[k].category)

(* A scan that reported findings of both severities in and out of the      *)
(* injection rule sets                                                      *)
C14_Witness ==
    /\ pc = "exited"
    /\ \E k \in 1..Len(findings) :
          findings[k].category = "Injection (xss)" /\ findings[k].severity = "HIGH"
    /\ \E k \in 1..Len(findings) :
          findings[k].category = "Injection (nosql)" /\ findings[k].severity = "HIGH"
    /\ \E k \in 1..Len(findings) :
          findings[k].category = "Injection (sql)" /\ findings[k].severity = "CRITICAL"
    /\ \E k \in 1..Len(findings) :
          findings[k].category = "Secrets" /\ findings[k].severity = "CRITICAL"
    /\ \E k \in 1..Len(findings) :
          findings[k].category = "Cloud/Infrastructure" /\ findings[k].severity = "HIGH"

(* name ends with the extension, in any case, after at least one character *)
HasExtension(name, extension) ==
    /\ Len(name) > Len(extension)
    /\ StrLower(SubSeq(name, Len(name) - Len(extension) + 1, Len(name))) = extension

(* The files the claim makes candidates: no directory between the root and *)
(* the file is named in the exclusion set, and the file has an allowed     *)
(* extension or a name that starts with .env                               *)
ClaimedCandidates ==
    { i \in 1..Len(places) :
        /\ \A k \in 1..Len(places[i].dirs) : places[i].dirs[k] \notin SKIP_DIRS
        /\ \/ \E e \in SCANNABLE_EXTENSIONS : HasExtension(places[i].name, e)
           \/ SubSeq(places[i].name, 1, 4) = ".env" }

(* The files _get_files has yielded so far *)
YieldedFiles == { Candidates(places)[k] : k \in 1..yielded }

(* C20: the traversal yields a file if and only if no directory on its     *)
(* path below the root has a name in the exclusion set, at any depth, and  *)
(* its lower-cased extension is in the allow-list or its name starts with  *)
(* .env: only such files are ever yielded, in the order of the walk; when  *)
(* the scan ends all of them were yielded and files_scanned is their       *)
(* number; and no finding names a file that is not one of them.            *)
C20_TraversalCandidates ==
    /\ yielded <= Len(Candidates(places))
    /\ YieldedFiles \subseteq ClaimedCandidates
    /\ \A j, k \in 1..yielded :
          j < k => Candidates(places)[j] < Candidates(places)[k]
    /\ \A k \in 1..Len(findings) :
          \E i \in YieldedFiles : findings[k].file_path = WalkPath(i)
    /\ files_scanned <= Cardinality(YieldedFiles)
    /\ (pathExists /\ pc \in {"filter", "exited"}) =>
          /\ YieldedFiles = ClaimedCandidates
          /\ files_scanned = Cardinality(ClaimedCandidates)
    /\ (pc = "exited" /\ output.kind = "results") =>
          output.files_scanned = Cardinality(ClaimedCandidates)

(* A finished scan of a target with a secret in a file below src/build,    *)
(* excluded at the second level: it was neither scanned nor counted, and   *)
(* the other file of the target was                                        *)
C20_Witness ==
    /\ pc = "exited"
    /\ \E i \in 1..Len(places) :
          /\ places[i].dirs = <<"src", "build">>
          /\ FindingsAtPath(findings, WalkPath(i)) = <<>>
    /\ files_scanned = 1
    /\ findings # <<>>

-----------------------------------------------------------------------------
(* Properties of the findings the report generator collects *)

(* The number of classifications an npm entry falls under *)
NpmClassifications(dep) ==
      (IF Lower(dep.pkg) \in HALLUCINATED_PACKAGES("npm") THEN 1 ELSE 0)
    + Len(Advisories("npm", Lower(dep.pkg)))
    + (IF dep.version \in {"", "*", "latest"} THEN 1 ELSE 0)

(* The number of classifications a Python package falls under *)
PythonClassifications(pkg) ==
      (IF pkg \in HALLUCINATED_PACKAGES("python") THEN 1 ELSE 0)
    + Len(Advisories("python", pkg))

(* C18: nothing is de-duplicated. In the findings the scanner printed, a   *)
(* rule that matches k times in a file has exactly k findings for that     *)
(* file, also when the matches are in one line, and every rule matching a  *)
(* text has its own; in the findings the dependency checker printed, every *)
(* package taken from a manifest has one finding per classification it     *)
(* falls under (hallucinated, each advisory, unpinned version).            *)
C18_NoDeduplication ==
    /\ results.security_findings.kind = "results" =>
          \A i \in Range(Candidates(places)) :
              tree[i].readable =>
                 \A r \in RuleIds :
                    Len(FindingsOfRule(
                            FindingsAtPath(results.security_findings.findings,
                                           WalkPath(i)), r))
                       = Len(MatchLinesFrom(r, tree[i].lines, 1))
    /\ results.dependency_findings.kind = "results" =>
          /\ \A i \in 1..Len(deps.pkg_files) :
                LET file == deps.pkg_files[i]
                    own == FindingsAt(results.dependency_findings.findings,
                                      RelPath(i, "package.json"))
                IN  (~file.excluded /\ ~PkgFileFails(file)) =>
                       \A k \in 1..Len(DeclaredDeps(file)) :
                          Len(OfEntry(own, DeclaredDeps(file)[k]))
                             = NpmClassifications(DeclaredDeps(file)[k])
          /\ \A i \in 1..Len(deps.req_files) :
                LET file == deps.req_files[i]
                    own == FindingsAt(results.dependency_findings.findings,
                                      RelPath(i, ReqFileName(file)))
                IN  (~file.excluded /\ file.readable) =>
                       \A k \in 1..Len(Packages[file]) :
                          Len(OfPackage(own, Packages[file][k].pkg))
                             = PythonClassifications(Packages[file][k].pkg)

(* The collected results hold two equal findings of one rule for two       *)
(* matches in one line, the findings of two rules for one assignment, and  *)
(* two findings for the one entry "axios": "*"                             *)
C18_Witness ==
    /\ results.security_findings.kind = "results"
    /\ results.dependency_findings.kind = "results"
    /\ \E j, k \in 1..Len(results.security_findings.findings) :
          /\ j < k
          /\ results.security_findings.findings[j] = results.security_findings.findings[k]
    /\ {"SEC-011", "SEC-012"} \subseteq
          { f.rule_id : f \in Range(results.security_findings.findings) }
    /\ Len(deps.pkg_files) = 1
    /\ Len(OfEntry(results.dependency_findings.findings, Dep("axios", "*"))) = 2

-----------------------------------------------------------------------------
(* Properties of a repeated scan *)

(* The number of times a finding occurs in a list *)
Occurrences(fs, f) == Cardinality({ k \in 1..Len(fs) : fs[k] = f })

(* The findings of each file stand together in the list *)
FilesTogether(fs) ==
    \A i, j, k \in 1..Len(fs) :
        (i < j /\ j < k /\ fs[i].file_path = fs[k].file_path)
            => fs[j].file_path = fs[i].file_path

(* C21: two scans of one unchanged target, the second with the walk in any *)
(* other order, print the same findings as a multiset (rule, file, line,   *)
(* severity and the rest) and the same files_scanned; the findings of a    *)
(* file stand together and in the same order in both, so that only the     *)
(* order of whole files can differ.                                        *)
C21_RescanSameFindings ==
    (pc = "exited" /\ previous.kind = "results" /\ output.kind = "results") =>
        /\ output.files_scanned = previous.files_scanned
        /\ output.total_findings = previous.total_findings
        /\ \A f \in Range(output.findings) \cup Range(previous.findings) :
              Occurrences(output.findings, f) = Occurrences(previous.findings, f)
        /\ \A i \in 1..Len(places) :
              FindingsAtPath(output.findings, WalkPath(i))
                 = FindingsAtPath(previous.findings, WalkPath(i))
        /\ FilesTogether(output.findings)
        /\ FilesTogether(previous.findings)

(* Two finished scans of a target of two files with findings, the second   *)
(* of which met the files in the other order and printed the findings in   *)
(* another order                                                            *)
C21_Witness ==
    /\ pc = "exited"
    /\ previous.kind = "results"
    /\ output.kind = "results"
    /\ output.files_scanned = 2
    /\ output.findings # previous.findings
    /\ \E f \in Range(output.findings) : Occurrences(output.findings, f) = 2

-----------------------------------------------------------------------------
(* Properties of the scanner under defective rule tables *)

(* C22: a rule-table defect (a duplicate rule id across the rule sets, or  *)
(* a malformed pattern) makes the process fail at start, before any file   *)
(* is scanned: with defective tables no file is ever yielded or scanned,   *)
(* and the process ends with a non-zero status and no scan result.         *)
C22_DefectFailsAtStart ==
    catalog # Shipped =>
        /\ yielded = 0
        /\ files_scanned = 0
        /\ pc = "exited" => (exitCode # 0 /\ output = NoOutput)

-----------------------------------------------------------------------------
(* Properties of a report built after a failed sub-step *)

(* C23: when the security scan sub-step of run_all_checks fails, so that   *)
(* security_findings is an error record, the executive summary of the      *)
(* generated markdown report does not state the PASSED verdict.            *)
C23_FailedScanNotPassed ==
    (report.kind = "markdown" /\ results.security_findings.kind = "error")
        => "PASSED" \notin Range(VerdictLines(report))

-----------------------------------------------------------------------------
(* Properties of the severities of dependency findings *)

(* C24: every dependency finding that check produces, those built from npm *)
(* audit output included, has a severity the markdown renderer maps to an  *)
(* icon (CRITICAL, HIGH or MEDIUM), so rendering the dependency section    *)
(* never fails on a finding's severity.                                    *)
C24_SeveritiesHaveIcons ==
    /\ \A k \in 1..Len(Get(results.dependency_findings, "findings", <<>>)) :
          results.dependency_findings.findings[k].severity \in DependencyIcons
    /\ ~(report.kind = "raised" /\ report.raised = "KeyError")

-----------------------------------------------------------------------------
(* Properties of the check names *)

(* The rule sets a selection of check names applies *)
SetsApplied(checks) == { set \in SixChecks : Applies(checks, set) }

(* The check names the detector recommends for some project *)
RecommendedNames == UNION { Range(info.recommended_checks) : info \in ProjectInfos }

(* C25: every check name the scanner accepts, and every check name the     *)
(* project detector recommends, selects at least one rule set when passed  *)
(* alone as the check selection: a scan run with a single check name and   *)
(* no --full has applied the rules of some rule set.                       *)
C25_NameSelectsRules ==
    (pc = "exited" /\ ~args.full /\ Cardinality(args.check) = 1) =>
        /\ SetsApplied(Checks(args)) # {}
        /\ \A name \in CheckChoices \cup RecommendedNames : SetsApplied({name}) # {}

-----------------------------------------------------------------------------
(* Properties of the severities the scanner emits *)

(* The markdown report run_all_checks would build from what the scanner    *)
(* printed, with nothing detected and no dependency finding                *)
ReportOf(scan_output) ==
    GenerateMarkdownReport([project_info |-> ErrorResult("TimeoutExpired"),
                            security_findings |-> scan_output,
                            dependency_findings |-> PrintDepResults(<<>>)])

(* C26: the pattern scanner never emits a MEDIUM or LOW finding, so in     *)
(* every scan result the medium and low counts are 0, the minimum-severity *)
(* thresholds low, medium and high all keep the findings scan() returned,  *)
(* and the report built from the scanner's output never carries the        *)
(* REVIEW verdict.                                                          *)
C26_NoMediumOrLow ==
    /\ \A k \in 1..Len(findings) : findings[k].severity \in {"CRITICAL", "HIGH"}
    /\ output.kind = "results" =>
          /\ output.medium = 0
          /\ output.low = 0
          /\ args.severity \in {"low", "medium", "high"} => findings = scanned
          /\ "REVIEW" \notin Range(VerdictLines(ReportOf(output)))

(* A scan under --severity medium that reported HIGH findings only: the    *)
(* filter kept them all and the report's verdict is ACTION_REQUIRED        *)
C26_Witness ==
    /\ pc = "exited"
    /\ args.severity = "medium"
    /\ output.kind = "results"
    /\ output.critical = 0
    /\ output.high > 0
    /\ output.medium = 0
    /\ findings = scanned
    /\ VerdictLines(ReportOf(output)) = <<"ACTION_REQUIRED">>

=============================================================================
